---- MODULE Spec2Model ----
(***************************************************************************)
(* HIP scene-file ingestion of houdiniclaw: the Scene Parser               *)
(* (hip-content-parser.ts), the Archive Reader and Text Filter             *)
(* (cpio-reader.ts), the Cache Manager and the Extractor                   *)
(* (hip-downloader.ts) and the Knowledge Store with its aggregate queries  *)
(* (KnowledgeBase), each as a state machine with its own specification     *)
(* over the shared variables.                                              *)
(***************************************************************************)
EXTENDS Integers, Sequences, FiniteSets, TLC

VARIABLES
    \* ---- Scene Parser (parseHipContent / extractNodesFromContent)
    entryNames,     \* raw filenames of the entries parseHipContent has yet to sort
    nodeEntries,    \* the keys of the nodeEntries map, in insertion order
    keyIdx,         \* position of parseNodes' loop in the nodeEntries map
    phase,          \* "split" | "entry" | "lines" | "done"
    parser,         \* the locals of extractNodesFromContent for the entry being walked
    linesFed,       \* lines consumed so far over the whole call
    sceneNodes,     \* result.nodes
    entryConnections, \* what extractConnections returns for the lines walked so far
    sceneConnections, \* result.connections
    \* ---- Archive Reader (readCpioFromBuffer / parseCpioArchive)
    archive,        \* how the input buffer was put together (the files, the wrapping)
    input,          \* the buffer handed to readCpioFromBuffer
    raw,            \* the buffer handed to parseCpioArchive
    rpc,            \* "start" | "loop" | "done" | "error"
    offset,         \* parseCpioArchive's read offset
    entries,        \* parseCpioArchive's entries
    iterations,     \* iterations of the entry loop so far
    badHeader,      \* an entry header with the magic and a non-hexadecimal field was read
    \* ---- Text Filter (filterTextEntries)
    filterInput,    \* the entries handed to filterTextEntries
    filterOutput,   \* the entries it returned
    fpc,            \* "call" | "done"
    \* ---- Cache Manager (downloadHipFile / downloadHipFiles)
    disk,           \* the files of the cache directory: path -> content
    manifestFile,   \* the entries of hip-cache-manifest.json, in property order
    clock,          \* what new Date() reads
    calls,          \* the downloadHipFile calls: position, url, manifest in hand, what
                    \* the fetch came to, result
    batch,          \* the downloadHipFiles call: position, urls, index, result
    evicted,        \* the rows the latest enforceCacheLimit deleted, in its order
    midway,         \* the files and the persisted manifest as the latest step left them
                    \* between its writes to the files and its saveManifest
    \* ---- Knowledge Store and Extractor (KnowledgeBase, extractAllHipFiles)
    store,          \* the database: hip_files rows, hip_parameter_snapshots rows, and
                    \* the highest snapshot rowid handed out
    kbRowid,        \* last_insert_rowid of the connection a caller keeps open
    cachedFiles,    \* the archives whose file is in the cache directory
    extraction,     \* the extractAllHipFiles call, running or just returned: position,
                    \* entries, index, counters
    returned,       \* the latest call started and what it returned
    history,        \* the archive the latest step extracted, and per archive the
                    \* snapshots of its record after its first extraction
    \* ---- Aggregate queries (getParameterStatistics / getParameterUsageStats)
    snapshotTable,  \* the rows of hip_parameter_snapshots the query runs over
    statsCall,      \* the query: position, node type, parameter name, the rows of
                    \* getParameterStatistics, the rows of getParameterUsageStats
    \* ---- Helpers of the Scene Parser called on their own (parseParamValue, inferCategory)
    helperCall      \* the call: position, function, arguments, what it returned

parserVars ==
    <<entryNames, nodeEntries, keyIdx, phase, parser, linesFed, sceneNodes,
      entryConnections, sceneConnections>>

readerVars == <<archive, input, raw, rpc, offset, entries, iterations, badHeader>>

filterVars == <<filterInput, filterOutput, fpc>>

cacheVars == <<disk, manifestFile, clock, calls, batch, evicted, midway>>

extractVars == <<store, kbRowid, cachedFiles, extraction, returned, history>>

statsVars == <<snapshotTable, statsCall>>

helperVars == <<helperCall>>

vars ==
    <<parserVars, readerVars, filterVars, cacheVars, extractVars, statsVars, helperVars>>

-----------------------------------------------------------------------------
(* Bounds of the model                                                     *)

MaxEntries == 2
MaxLines == 6
MaxWires == 2
MaxArchiveFiles == 2
MaxIterations == 5
MaxFilterEntries == 2
MaxCalls == 1
MaxBatch == 2
MaxClock == 1
MaxOperations == 4
MaxBatchEntries == 2

-----------------------------------------------------------------------------
(* JavaScript string primitives, on TLC strings                            *)

Ch(s, i) == SubSeq(s, i, i)

WhiteSpace == {" ", "\t", "\r", "\n"}

IsWs(c) == c \in WhiteSpace

Min(a, b) == IF a <= b THEN a ELSE b

Max(a, b) == IF a >= b THEN a ELSE b

\* s.startsWith(p)
StartsWith(s, p) == Len(p) <= Len(s) /\ SubSeq(s, 1, Len(p)) = p

\* s.endsWith(p)
EndsWith(s, p) == Len(p) <= Len(s) /\ SubSeq(s, Len(s) - Len(p) + 1, Len(s)) = p

\* s.includes(p)
Includes(s, p) == \E i \in 1..(Len(s) - Len(p) + 1) : SubSeq(s, i, i + Len(p) - 1) = p

\* first index >= i of s that holds no white space, Len(s)+1 when there is none (\s*)
RECURSIVE SkipWs(_, _)
SkipWs(s, i) == IF i <= Len(s) /\ IsWs(Ch(s, i)) THEN SkipWs(s, i + 1) ELSE i

\* first index >= i of s that holds white space, Len(s)+1 when there is none (\S*)
RECURSIVE SkipNonWs(_, _)
SkipNonWs(s, i) == IF i <= Len(s) /\ ~IsWs(Ch(s, i)) THEN SkipNonWs(s, i + 1) ELSE i

\* last index <= i of s that holds no white space, 0 when there is none
RECURSIVE SkipWsBack(_, _)
SkipWsBack(s, i) == IF i >= 1 /\ IsWs(Ch(s, i)) THEN SkipWsBack(s, i - 1) ELSE i

\* s.trim()
Trim(s) == SubSeq(s, SkipWs(s, 1), SkipWsBack(s, Len(s)))

\* s.replace(/\\/g, "/")
RECURSIVE BackslashesToSlashes(_)
BackslashesToSlashes(s) ==
    IF s = "" THEN ""
    ELSE (IF Head(s) = "\\" THEN "/" ELSE Head(s)) \o BackslashesToSlashes(Tail(s))

\* s.replace(/^\/*/, "")
RECURSIVE StripLeadingSlashes(_)
StripLeadingSlashes(s) ==
    IF s # "" /\ Head(s) = "/" THEN StripLeadingSlashes(Tail(s)) ELSE s

\* s.replace(/\/+$/, "")
RECURSIVE StripTrailingSlashes(_)
StripTrailingSlashes(s) ==
    IF s # "" /\ Ch(s, Len(s)) = "/"
    THEN StripTrailingSlashes(SubSeq(s, 1, Len(s) - 1))
    ELSE s

\* s.replace(/^\.\/*/, ""): one leading dot and the slashes after it
StripDotSlashes(s) ==
    IF s # "" /\ Head(s) = "." THEN StripLeadingSlashes(Tail(s)) ELSE s

UpperCase == "ABCDEFGHIJKLMNOPQRSTUVWXYZ"

LowerCase == "abcdefghijklmnopqrstuvwxyz"

LowerChar(c) ==
    IF \E i \in 1..Len(UpperCase) : Ch(UpperCase, i) = c
    THEN Ch(LowerCase, CHOOSE i \in 1..Len(UpperCase) : Ch(UpperCase, i) = c)
    ELSE c

\* s.toLowerCase()
RECURSIVE ToLowerCase(_)
ToLowerCase(s) == IF s = "" THEN "" ELSE LowerChar(Head(s)) \o ToLowerCase(Tail(s))

\* s.split(/\s+/) of a trimmed string
RECURSIVE SplitWs(_)
SplitWs(s) ==
    LET a == SkipWs(s, 1)
        b == SkipNonWs(s, a)
    IN  IF a > Len(s) THEN <<>>
        ELSE <<SubSeq(s, a, b - 1)>> \o SplitWs(SubSeq(s, b, Len(s)))

\* the result of String.prototype.match: no match, or capture group 1
NoMatch == [ok |-> FALSE, cap |-> ""]

Match(c) == [ok |-> TRUE, cap |-> c]

-----------------------------------------------------------------------------
(* The regular expressions of extractNodesFromContent, on a trimmed line   *)

\* /^type\s*=\s*(\S+)/
MatchType(t) ==
    IF ~StartsWith(t, "type") THEN NoMatch
    ELSE LET a == SkipWs(t, 5)
         IN  IF a > Len(t) \/ Ch(t, a) # "=" THEN NoMatch
             ELSE LET b == SkipWs(t, a + 1)
                      e == SkipNonWs(t, b)
                  IN  IF e > b THEN Match(SubSeq(t, b, e - 1)) ELSE NoMatch

\* /^name\s*=?\s*(\S+)/ : the optional "=" is taken when a capture follows it, and is
\* otherwise left to the capture itself (backtracking)
MatchNodeName(t) ==
    IF ~StartsWith(t, "name") THEN NoMatch
    ELSE LET a == SkipWs(t, 5)
             b == SkipWs(t, a + 1)
         IN  IF a <= Len(t) /\ Ch(t, a) = "=" /\ SkipNonWs(t, b) > b
             THEN Match(SubSeq(t, b, SkipNonWs(t, b) - 1))
             ELSE IF SkipNonWs(t, a) > a
                  THEN Match(SubSeq(t, a, SkipNonWs(t, a) - 1))
                  ELSE NoMatch

\* RE_FLAGS = /^\s*flags\s*=\s*(.+)/m
MatchFlags(t) ==
    LET s == SkipWs(t, 1)
    IN  IF ~StartsWith(SubSeq(t, s, Len(t)), "flags") THEN NoMatch
        ELSE LET a == SkipWs(t, s + 5)
             IN  IF a > Len(t) \/ Ch(t, a) # "=" THEN NoMatch
                 ELSE LET b == SkipWs(t, a + 1)
                      IN  IF b <= Len(t) THEN Match(SubSeq(t, b, Len(t)))
                          ELSE IF b - 1 > a THEN Match(SubSeq(t, b - 1, Len(t)))
                          ELSE NoMatch

\* /^name\s+(\S+)/
MatchParmName(t) ==
    IF ~StartsWith(t, "name") THEN NoMatch
    ELSE LET a == SkipWs(t, 5)
             e == SkipNonWs(t, a)
         IN  IF a > 5 /\ e > a THEN Match(SubSeq(t, a, e - 1)) ELSE NoMatch

\* "value\s+(.+)" anchored at index i of t
ValueAt(t, i) ==
    IF ~StartsWith(SubSeq(t, i, Len(t)), "value") THEN NoMatch
    ELSE LET a == SkipWs(t, i + 5)
         IN  IF a = i + 5 THEN NoMatch
             ELSE IF a <= Len(t) THEN Match(SubSeq(t, a, Len(t)))
             ELSE IF a - 1 > i + 5 THEN Match(SubSeq(t, a - 1, Len(t)))
             ELSE NoMatch

\* /^(?:default)?\s*value\s+(.+)/
MatchParmValue(t) ==
    LET withDefault == IF StartsWith(t, "default") THEN ValueAt(t, SkipWs(t, 8)) ELSE NoMatch
    IN  IF withDefault.ok THEN withDefault ELSE ValueAt(t, SkipWs(t, 1))

\* /^expression\s+(.+)/
MatchExpression(t) ==
    IF ~StartsWith(t, "expression") THEN NoMatch
    ELSE LET a == SkipWs(t, 11)
         IN  IF a = 11 THEN NoMatch
             ELSE IF a <= Len(t) THEN Match(SubSeq(t, a, Len(t)))
             ELSE IF a - 1 > 11 THEN Match(SubSeq(t, a - 1, Len(t)))
             ELSE NoMatch

\* for (const ch of trimmed) { if (ch === "{") parmDepth++; if (ch === "}") parmDepth--; }
RECURSIVE BraceDelta(_)
BraceDelta(t) ==
    IF t = "" THEN 0
    ELSE (IF Head(t) = "{" THEN 1 ELSE IF Head(t) = "}" THEN -1 ELSE 0) + BraceDelta(Tail(t))

-----------------------------------------------------------------------------
(* Helpers of the Scene Parser                                             *)

\* normalizeFilename: backslashes to slashes, a leading "." with the slashes after it
\* removed, trailing slashes removed
normalizeFilename(filename) ==
    StripTrailingSlashes(StripDotSlashes(BackslashesToSlashes(filename)))

\* the filename tests of parseHipContent's "scene-level header files" branch
IsHeaderFile(filename) ==
    \/ filename = ".hip"
    \/ filename = "Houdini"
    \/ filename = ".OPfallbacks"
    \/ EndsWith(filename, ".def")
    \/ filename = "houdini.hip"

BasePathNoSlash(filename) == StripLeadingSlashes(BackslashesToSlashes(filename))

\* const basePath = "/" + filename.replace(/\\/g, "/").replace(/^\/*/, "")
BasePath(filename) == "/" \o StripLeadingSlashes(BackslashesToSlashes(filename))

DopTypeWords == {"pyro", "flip", "rbd", "vellum", "solver", "gas", "bullet"}

PathCategories ==
    << <<"/dop/", "dopnet", "DOP">>, <<"/sop/", "sopnet", "SOP">>,
       <<"/vop/", "vopnet", "VOP">>, <<"/chop/", "chopnet", "CHOP">>,
       <<"/cop/", "copnet", "COP">>, <<"/rop/", "ropnet", "ROP">>,
       <<"/lop/", "lopnet", "LOP">>, <<"/top/", "topnet", "TOP">> >>

RECURSIVE PathCategoryFrom(_, _)
PathCategoryFrom(pathLower, i) ==
    IF i > Len(PathCategories)
    THEN IF Includes(pathLower, "/obj/") THEN "OBJ" ELSE "SOP"
    ELSE IF Includes(pathLower, PathCategories[i][1]) \/ Includes(pathLower, PathCategories[i][2])
         THEN PathCategories[i][3]
         ELSE PathCategoryFrom(pathLower, i + 1)

\* inferCategory had the file path been looked at before the node type
inferCategoryPathFirst(nodeType, filePath) ==
    LET typeLower == ToLowerCase(nodeType)
        pathLower == ToLowerCase(filePath)
        fromPath == PathCategoryFrom(pathLower, 1)
    IN  IF fromPath # "SOP" THEN fromPath
        ELSE IF \E w \in DopTypeWords : Includes(typeLower, w) THEN "DOP"
        ELSE "SOP"

inferCategory(nodeType, filePath) ==
    LET typeLower == ToLowerCase(nodeType)
        pathLower == ToLowerCase(filePath)
    IN  IF \E w \in DopTypeWords : Includes(typeLower, w)
        THEN "DOP"
        ELSE PathCategoryFrom(pathLower, 1)

\* number of "=" in a flag token: part.split("=").length - 1
RECURSIVE CountEq(_)
CountEq(s) == IF s = "" THEN 0 ELSE (IF Head(s) = "=" THEN 1 ELSE 0) + CountEq(Tail(s))

RECURSIVE IndexOfEq(_, _)
IndexOfEq(s, i) == IF i > Len(s) \/ Ch(s, i) = "=" THEN i ELSE IndexOfEq(s, i + 1)

\* node.flags[k] = v on a flags object held as a function from names to booleans
PutFlag(flags, k, v) == [x \in DOMAIN flags \cup {k} |-> IF x = k THEN v ELSE flags[x]]

RECURSIVE FoldFlags(_, _)
FoldFlags(flags, parts) ==
    IF parts = <<>> THEN flags
    ELSE LET part == Head(parts)
             e == IndexOfEq(part, 1)
             val == SubSeq(part, e + 1, Len(part))
         IN  FoldFlags(
                 IF CountEq(part) = 1
                 THEN PutFlag(flags, SubSeq(part, 1, e - 1), val \in {"1", "on", "true"})
                 ELSE PutFlag(flags, part, TRUE),
                 Tail(parts))

parseFlags(flagStr, node) == [node EXCEPT !.flags = FoldFlags(node.flags, SplitWs(Trim(flagStr)))]

Digits == {"0", "1", "2", "3", "4", "5", "6", "7", "8", "9"}

RECURSIVE SkipDigits(_, _)
SkipDigits(s, i) == IF i <= Len(s) /\ Ch(s, i) \in Digits THEN SkipDigits(s, i + 1) ELSE i

\* [eE][+-]?digits+ from index i to the end of s, or nothing at all
IsExponentOrEnd(s, i) ==
    \/ i > Len(s)
    \/ /\ Ch(s, i) \in {"e", "E"}
       /\ LET j == IF i + 1 <= Len(s) /\ Ch(s, i + 1) \in {"+", "-"} THEN i + 2 ELSE i + 1
          IN  SkipDigits(s, j) > j /\ SkipDigits(s, j) > Len(s)

\* StrUnsignedDecimalLiteral from index i to the end of s
IsUnsignedDecimal(s, i) ==
    \/ SubSeq(s, i, Len(s)) = "Infinity"
    \/ LET a == SkipDigits(s, i)
       IN  \/ a > i /\ IsExponentOrEnd(s, a)
           \/ a > i /\ a <= Len(s) /\ Ch(s, a) = "." /\ IsExponentOrEnd(s, SkipDigits(s, a + 1))
           \/ a = i /\ a <= Len(s) /\ Ch(s, a) = "."
                /\ SkipDigits(s, a + 1) > a + 1 /\ IsExponentOrEnd(s, SkipDigits(s, a + 1))

RadixDigits(prefix) ==
    IF prefix \in {"0x", "0X"} THEN Digits \cup {"a", "b", "c", "d", "e", "f", "A", "B", "C", "D", "E", "F"}
    ELSE IF prefix \in {"0o", "0O"} THEN {"0", "1", "2", "3", "4", "5", "6", "7"}
    ELSE IF prefix \in {"0b", "0B"} THEN {"0", "1"}
    ELSE {}

\* !isNaN(Number(s)) for a trimmed, non-empty s: the StringNumericLiteral grammar
IsJsNumber(s) ==
    \/ IsUnsignedDecimal(s, IF Head(s) \in {"+", "-"} THEN 2 ELSE 1) /\ Len(s) >= 1
         /\ ~(Head(s) \in {"+", "-"} /\ Len(s) = 1)
    \/ Len(s) >= 3 /\ \A i \in 3..Len(s) : Ch(s, i) \in RadixDigits(SubSeq(s, 1, 2))

\* parseParamValue: a number, else an array of numbers, else the trimmed text
parseParamValue(rawValue) ==
    LET trimmed == Trim(rawValue)
        parts == SplitWs(trimmed)
    IN  IF trimmed # "" /\ IsJsNumber(trimmed)
        THEN [kind |-> "number", text |-> trimmed]
        ELSE IF Includes(trimmed, " ") /\ \A i \in 1..Len(parts) : IsJsNumber(parts[i])
        THEN [kind |-> "array", text |-> trimmed]
        ELSE [kind |-> "text", text |-> trimmed]

\* finalizeNode: every field of the partial node is set when the node is created, so
\* none of the ?? defaults applies
finalizeNode(partial, basePath) ==
    [path |-> partial.path, type |-> partial.type, category |-> partial.category,
     name |-> partial.name, parameters |-> partial.parameters, flags |-> partial.flags]

-----------------------------------------------------------------------------
(* extractNodesFromContent, one line at a time                             *)

\* ?. and ?? on a value that may be null: <<>> is null, <<v>> is v
Null == <<>>

Some(v) == <<v>>

\* the locals declared at the top of extractNodesFromContent
NewParser ==
    [nodes |-> <<>>, currentNode |-> Null, inParm |-> FALSE, parmDepth |-> 0,
     currentParmName |-> "", currentParmValue |-> "", currentParmExpr |-> "",
     currentParmIsDefault |-> TRUE, hasType |-> FALSE]

NewNode(type, filename) ==
    [type |-> type, parameters |-> <<>>, flags |-> <<>>, name |-> "",
     path |-> BasePath(filename), category |-> inferCategory(type, filename)]

StartNodeNoFlush(p, type, filename) ==
    [p EXCEPT !.currentNode = Some(NewNode(type, filename))]

\* a "type = X" line outside a parm block: push the node in progress, start a new one
StartNode(p, type, filename) ==
    [p EXCEPT
        !.nodes = IF p.currentNode # Null
                  THEN Append(p.nodes, finalizeNode(p.currentNode[1], BasePath(filename)))
                  ELSE p.nodes,
        !.currentNode = Some(NewNode(type, filename))]

\* a "name X" line on an active node outside a parm block
SetNodeName(p, name, filename) ==
    [p EXCEPT !.currentNode =
        Some([p.currentNode[1] EXCEPT !.name = name,
                                      !.path = BasePath(filename) \o "/" \o name])]

\* "parm {": a fresh parameter record at brace depth 1
BeginParm(p) ==
    [p EXCEPT !.inParm = TRUE, !.parmDepth = 1, !.currentParmName = "",
              !.currentParmValue = "", !.currentParmExpr = "",
              !.currentParmIsDefault = TRUE]

\* the HipParameter built when a parm block closes
NewParam(p) ==
    [name |-> p.currentParmName, value |-> parseParamValue(p.currentParmValue),
     isDefault |-> p.currentParmIsDefault,
     expression |-> IF p.currentParmExpr # "" THEN Some(p.currentParmExpr) ELSE Null]

\* brace depth back at 0 or below: save the parameter when it has a name and a node
EndParm(p, depth) ==
    [p EXCEPT
        !.parmDepth = depth,
        !.inParm = FALSE,
        !.currentNode =
            IF p.currentParmName # "" /\ p.currentNode # Null
            THEN Some([p.currentNode[1] EXCEPT
                          !.parameters = Append(p.currentNode[1].parameters, NewParam(p))])
            ELSE p.currentNode]

SetExpressionKeepDefault(p, expr) == [p EXCEPT !.currentParmExpr = expr]

\* an "expression X" line: the expression text, and isDefault forced to false
SetExpression(p, expr) ==
    [p EXCEPT !.currentParmExpr = expr, !.currentParmIsDefault = FALSE]

\* the body of "if (inParm)" for one trimmed line
InParmLine(p, trimmed) ==
    LET depth == p.parmDepth + BraceDelta(trimmed)
        pNameMatch == MatchParmName(trimmed)
        pValueMatch == MatchParmValue(trimmed)
        exprMatch == MatchExpression(trimmed)
        q == [p EXCEPT !.parmDepth = depth]
        marked == IF Includes(trimmed, "parmdef") \/ Includes(trimmed, "default {")
                  THEN [q EXCEPT !.currentParmIsDefault = FALSE]
                  ELSE q
    IN  IF depth <= 0 THEN EndParm(p, depth)
        ELSE IF pNameMatch.ok THEN [q EXCEPT !.currentParmName = pNameMatch.cap]
        ELSE IF pValueMatch.ok THEN [q EXCEPT !.currentParmValue = Trim(pValueMatch.cap)]
        ELSE IF exprMatch.ok THEN SetExpression(marked, Trim(exprMatch.cap))
        ELSE marked

\* the body of the for loop over lines had a "type = X" line started a node in a parm
\* block as well
LineStepAnyState(p, line, filename) ==
    LET trimmed == Trim(line)
        typeMatch == MatchType(trimmed)
        nameMatch == MatchNodeName(trimmed)
        flagsMatch == MatchFlags(trimmed)
        q == [p EXCEPT !.hasType = p.hasType \/ Includes(line, "type")]
    IN  IF typeMatch.ok THEN StartNode(q, typeMatch.cap, filename)
        ELSE IF nameMatch.ok /\ p.currentNode # Null /\ ~p.inParm
             THEN SetNodeName(q, nameMatch.cap, filename)
        ELSE IF flagsMatch.ok /\ p.currentNode # Null
             THEN [q EXCEPT !.currentNode = Some(parseFlags(flagsMatch.cap, p.currentNode[1]))]
        ELSE IF trimmed = "parm {" \/ StartsWith(trimmed, "parm\t{") THEN BeginParm(q)
        ELSE IF p.inParm THEN InParmLine(q, trimmed)
        ELSE q

\* the body of the for loop over lines
LineStep(p, line, filename) ==
    LET trimmed == Trim(line)
        typeMatch == MatchType(trimmed)
        nameMatch == MatchNodeName(trimmed)
        flagsMatch == MatchFlags(trimmed)
        q == [p EXCEPT !.hasType = p.hasType \/ Includes(line, "type")]
    IN  IF typeMatch.ok /\ ~p.inParm THEN StartNode(q, typeMatch.cap, filename)
        ELSE IF nameMatch.ok /\ p.currentNode # Null /\ ~p.inParm
             THEN SetNodeName(q, nameMatch.cap, filename)
        ELSE IF flagsMatch.ok /\ p.currentNode # Null
             THEN [q EXCEPT !.currentNode = Some(parseFlags(flagsMatch.cap, p.currentNode[1]))]
        ELSE IF trimmed = "parm {" \/ StartsWith(trimmed, "parm\t{") THEN BeginParm(q)
        ELSE IF p.inParm THEN InParmLine(q, trimmed)
        ELSE q

\* the nodes extractNodesFromContent returns when the content ends here ("save last node")
ReturnedNodes(p, filename) ==
    IF p.currentNode # Null
    THEN Append(p.nodes, finalizeNode(p.currentNode[1], BasePath(filename)))
    ELSE p.nodes

-----------------------------------------------------------------------------
(* extractConnections, one line at a time                                  *)

RECURSIVE DigitsValue(_, _)
DigitsValue(s, acc) ==
    IF s = "" \/ Head(s) \notin Digits THEN acc
    ELSE DigitsValue(Tail(s), acc * 10 + (CHOOSE d \in 0..9 : ToString(d) = Head(s)))

\* parseInt(s, 10) of a capture of (\d+)
parseInt10(s) == DigitsValue(s, 0)

\* resolvePath
resolvePath(basePath, relative) ==
    IF StartsWith(relative, "/") THEN relative ELSE basePath \o "/" \o relative

\* the captures of a match over the whitespace-separated tokens of a trimmed line: the
\* first index must be all digits (whitespace has to follow it), the last capture is
\* the digits its token starts with
WireCaptures(tok) ==
    IF /\ Len(tok) >= 5
       /\ tok[1] = "wire"
       /\ SkipDigits(tok[3], 1) > Len(tok[3])
       /\ SkipDigits(tok[5], 1) > 1
    THEN <<tok[2], tok[3], tok[4], SubSeq(tok[5], 1, SkipDigits(tok[5], 1) - 1)>>
    ELSE <<>>

InputCaptures(tok) ==
    IF /\ Len(tok) >= 4
       /\ tok[1] = "input"
       /\ SkipDigits(tok[2], 1) > Len(tok[2])
       /\ SkipDigits(tok[4], 1) > 1
    THEN <<tok[2], tok[3], SubSeq(tok[4], 1, SkipDigits(tok[4], 1) - 1)>>
    ELSE <<>>

\* /^wire\s+(\S+)\s+(\d+)\s+(\S+)\s+(\d+)/ : the captures, or <<>>
MatchWire(t) == IF StartsWith(t, "wire") THEN WireCaptures(SplitWs(t)) ELSE <<>>

\* /^input\s+(\d+)\s+(\S+)\s+(\d+)/ : the captures, or <<>>
MatchInput(t) == IF StartsWith(t, "input") THEN InputCaptures(SplitWs(t)) ELSE <<>>

\* what the loop body pushes, given the two matches
PushedConnections(wireMatch, inputMatch, basePath) ==
    IF wireMatch # <<>>
    THEN <<[from |-> resolvePath(basePath, wireMatch[1]),
            fromOutput |-> parseInt10(wireMatch[2]),
            to |-> resolvePath(basePath, wireMatch[3]),
            toInput |-> parseInt10(wireMatch[4])]>>
    ELSE IF inputMatch # <<>>
    THEN <<[from |-> resolvePath(basePath, inputMatch[2]),
            fromOutput |-> parseInt10(inputMatch[3]),
            to |-> basePath,
            toInput |-> parseInt10(inputMatch[1])]>>
    ELSE <<>>

\* the body of extractConnections' loop: what one line pushes
ConnectionsOfLine(line, filename) ==
    PushedConnections(MatchWire(Trim(line)), MatchInput(Trim(line)), BasePath(filename))

-----------------------------------------------------------------------------
(* parseHipContent and parseNodes                                          *)

\* the Archive Reader at rest, while another component runs
ReaderIdle ==
    /\ archive = <<>>
    /\ input = <<>>
    /\ raw = <<>>
    /\ rpc = "idle"
    /\ offset = 0
    /\ entries = <<>>
    /\ iterations = 0
    /\ badHeader = FALSE

\* the Text Filter at rest
FilterIdle ==
    /\ filterInput = <<>>
    /\ filterOutput = <<>>
    /\ fpc = "idle"

\* the Cache Manager at rest
CacheIdle ==
    /\ disk = <<>>
    /\ manifestFile = <<>>
    /\ clock = 0
    /\ calls = <<>>
    /\ batch = <<>>
    /\ evicted = <<>>
    /\ midway = <<>>

\* the Knowledge Store and the Extractor at rest
ExtractIdle ==
    /\ store = <<>>
    /\ kbRowid = 0
    /\ cachedFiles = {}
    /\ extraction = <<>>
    /\ returned = <<>>
    /\ history = <<>>

\* no aggregate query under way
StatsIdle ==
    /\ snapshotTable = <<>>
    /\ statsCall = <<>>

\* no helper called on its own
HelperIdle == helperCall = <<>>

FileNames == {"obj/geo1", "./dopnet\\a/", "Houdini", ".hip"}

Lines ==
    {"type = geo", "  name = box1", "parm {", "}", "name tx", "value 1 2",
     "parmdef", "expression $F", "ramp {", "value \"parmdef\""}

\* connection lines of both forms, with a relative and an absolute endpoint
WireLines == {"wire box1 0 /obj/out 12", "input 3 box1 0"}

RECURSIVE SeqsUpTo(_, _)
SeqsUpTo(S, n) ==
    IF n = 0 THEN {<<>>}
    ELSE LET shorter == SeqsUpTo(S, n - 1)
         IN  shorter \cup {Append(q, x) : q \in {r \in shorter : Len(r) = n - 1}, x \in S}

\* the keys of the nodeEntries map in insertion order: the normalized names of the
\* entries that are no header files, each once, at the place of its first entry
RECURSIVE NodeKeys(_)
NodeKeys(names) ==
    IF names = <<>> THEN <<>>
    ELSE LET before == NodeKeys(SubSeq(names, 1, Len(names) - 1))
             filename == normalizeFilename(names[Len(names)])
         IN  IF IsHeaderFile(filename) \/ \E i \in 1..Len(before) : before[i] = filename
             THEN before
             ELSE Append(before, filename)

CurrentFile == nodeEntries[keyIdx]

ParserIdle ==
    /\ entryNames = <<>>
    /\ nodeEntries = <<>>
    /\ keyIdx = 1
    /\ phase = "idle"
    /\ parser = NewParser
    /\ linesFed = 0
    /\ sceneNodes = <<>>
    /\ entryConnections = <<>>
    /\ sceneConnections = <<>>

ParserInit ==
    /\ entryNames \in SeqsUpTo(FileNames, MaxEntries) \ {<<>>}
    /\ nodeEntries = <<>>
    /\ keyIdx = 1
    /\ phase = "split"
    /\ parser = NewParser
    /\ linesFed = 0
    /\ sceneNodes = <<>>
    /\ entryConnections = <<>>
    /\ sceneConnections = <<>>

\* the loop of parseHipContent over its entries: header files go to the header, the
\* others into the nodeEntries map; the entries are not looked at again for the nodes
SplitEntries ==
    /\ phase = "split"
    /\ nodeEntries' = NodeKeys(entryNames)
    /\ entryNames' = <<>>
    /\ phase' = "entry"
    /\ UNCHANGED <<keyIdx, parser, linesFed, sceneNodes, entryConnections, sceneConnections>>
    /\ UNCHANGED <<readerVars, filterVars, cacheVars, extractVars, statsVars, helperVars>>

\* parseNodes takes the next entry had the parm-block locals of extractNodesFromContent
\* outlived the call
BeginEntryCarrying ==
    /\ phase = "entry"
    /\ keyIdx <= Len(nodeEntries)
    /\ phase' = "lines"
    /\ parser' = [parser EXCEPT !.nodes = <<>>, !.currentNode = Null, !.hasType = FALSE]
    /\ entryConnections' = <<>>
    /\ UNCHANGED <<entryNames, nodeEntries, keyIdx, linesFed, sceneNodes, sceneConnections>>
    /\ UNCHANGED <<readerVars, filterVars, cacheVars, extractVars, statsVars, helperVars>>

\* parseNodes takes the next entry of the map and extractNodesFromContent starts on it
BeginEntry ==
    /\ phase = "entry"
    /\ keyIdx <= Len(nodeEntries)
    /\ phase' = "lines"
    /\ parser' = NewParser
    /\ entryConnections' = <<>>
    /\ UNCHANGED <<entryNames, nodeEntries, keyIdx, linesFed, sceneNodes, sceneConnections>>
    /\ UNCHANGED <<readerVars, filterVars, cacheVars, extractVars, statsVars, helperVars>>

\* one line of the entry's content: the iteration of extractNodesFromContent's loop
\* over it, and the iteration of extractConnections' loop over it
ParseLine ==
    /\ phase = "lines"
    /\ linesFed < MaxLines
    /\ \E line \in Lines \cup WireLines :
          /\ line \in WireLines
                => Len(entryConnections) + Len(sceneConnections) < MaxWires
          /\ parser' = LineStep(parser, line, CurrentFile)
          /\ entryConnections' = entryConnections \o ConnectionsOfLine(line, CurrentFile)
    /\ linesFed' = linesFed + 1
    /\ UNCHANGED <<entryNames, nodeEntries, keyIdx, phase, sceneNodes, sceneConnections>>
    /\ UNCHANGED <<readerVars, filterVars, cacheVars, extractVars, statsVars, helperVars>>

\* the content ends: parseNodes skips an entry without "type", else appends its nodes
\* and its connections
EndEntry ==
    /\ phase = "lines"
    /\ sceneNodes' = IF parser.hasType
                     THEN sceneNodes \o ReturnedNodes(parser, CurrentFile)
                     ELSE sceneNodes
    /\ sceneConnections' = IF parser.hasType
                           THEN sceneConnections \o entryConnections
                           ELSE sceneConnections
    /\ keyIdx' = keyIdx + 1
    /\ phase' = "entry"
    /\ UNCHANGED <<entryNames, nodeEntries, parser, linesFed, entryConnections>>
    /\ UNCHANGED <<readerVars, filterVars, cacheVars, extractVars, statsVars, helperVars>>

\* parseHipContent returns result
ReturnScene ==
    /\ phase = "entry"
    /\ keyIdx > Len(nodeEntries)
    /\ phase' = "done"
    /\ UNCHANGED <<entryNames, nodeEntries, keyIdx, parser, linesFed, sceneNodes,
                   entryConnections, sceneConnections>>
    /\ UNCHANGED <<readerVars, filterVars, cacheVars, extractVars, statsVars, helperVars>>

ParserNext == SplitEntries \/ BeginEntry \/ ParseLine \/ EndEntry \/ ReturnScene

InitParser == ParserInit /\ ReaderIdle /\ FilterIdle /\ CacheIdle /\ ExtractIdle /\ StatsIdle /\ HelperIdle

SpecParser == InitParser /\ [][ParserNext]_vars

-----------------------------------------------------------------------------
(* Claims about the Scene Parser                                           *)

IsPrefix(a, b) == Len(a) <= Len(b) /\ SubSeq(b, 1, Len(a)) = a

SceneParams ==
    UNION {{sceneNodes[i].parameters[j] : j \in 1..Len(sceneNodes[i].parameters)} :
              i \in 1..Len(sceneNodes)}

\* C1: in every Scene parseHipContent returns, every Node's path starts with "/".
C1_PathStartsWithSlash ==
    phase = "done" => \A i \in 1..Len(sceneNodes) : StartsWith(sceneNodes[i].path, "/")

\* a returned Scene with a node that has a name line and one that has none, one of them
\* from a filename that normalization rewrites
C1_Witness ==
    /\ phase = "done"
    /\ \E i, j \in 1..Len(sceneNodes) :
          /\ sceneNodes[i].name = ""
          /\ sceneNodes[j].name # ""
          /\ sceneNodes[j].path = "/dopnet/a/box1"

\* C2: in every returned Scene, a Parameter that carries an expression has
\* isDefault = false, in whatever order the lines of its parm block came.
C2_ExpressionNotDefault ==
    phase = "done" => \A prm \in SceneParams : prm.expression # Null => ~prm.isDefault

\* a returned Scene with an expression-driven parameter that also has a value
C2_Witness ==
    /\ phase = "done"
    /\ \E prm \in SceneParams : prm.expression = Some("$F") /\ prm.value.text = "1 2"

\* what the entry being walked would contribute if its content ended now, compared with
\* what it would contribute one line later: no node is lost and no parameter of a node
KeptPreserved(p, q, filename) ==
    LET before == ReturnedNodes(p, filename)
        after == ReturnedNodes(q, filename)
    IN  /\ Len(before) <= Len(after)
        /\ \A i \in 1..Len(before) :
              /\ after[i].type = before[i].type
              /\ IsPrefix(before[i].parameters, after[i].parameters)

\* C3: the parser never loses what it has completed: within an entry a further line,
\* well-formed or not, keeps every node and every parameter completed so far; the end
\* of the entry hands exactly those nodes to the Scene, also when a parm block is still
\* open; and the Scene only grows.
C3_PartialResultsKept ==
    [][/\ IsPrefix(sceneNodes, sceneNodes')
       /\ (phase = "lines" /\ phase' = "lines" => KeptPreserved(parser, parser', CurrentFile))
       /\ (phase = "lines" /\ phase' = "entry" /\ parser.hasType
              => sceneNodes' = sceneNodes \o ReturnedNodes(parser, CurrentFile))]_vars

\* a Scene returned after an entry that ended inside an unterminated parm block, holding
\* two nodes completed before it, the first with a parameter
C3_Witness ==
    /\ phase = "done"
    /\ parser.inParm
    /\ Len(sceneNodes) >= 2
    /\ Len(sceneNodes[1].parameters) >= 1

\* C29: an entry whose filename is .hip, Houdini, .OPfallbacks or houdini.hip, or ends
\* with .def, is a header entry and is not walked for nodes; every other entry is a
\* node entry: the entries parseNodes walks are those with any other filename.
C29_HeaderEntriesByFilename ==
    [][(phase = "split" /\ phase' = "entry")
          => {nodeEntries'[k] : k \in 1..Len(nodeEntries')} =
                {normalizeFilename(entryNames[i]) :
                    i \in {n \in 1..Len(entryNames) : ~IsHeaderFile(entryNames[n])}}]_vars

\* the lines that match /^type\s*=\s*(\S+)/ once trimmed
TypeLines == {line \in Lines : MatchType(Trim(line)).ok}

\* C30: within an entry every "type = X" line met outside a parm block adds one node
\* of type X after the nodes so far, which keep their places; any other line, a type
\* line inside a parm block among them, adds none; the end of the entry hands the
\* nodes, the one in progress last, to the Scene.
C30_OneNodePerTypeLine ==
    [][/\ (phase = "lines" /\ phase' = "lines")
             => LET before == ReturnedNodes(parser, CurrentFile)
                    after == ReturnedNodes(parser', CurrentFile)
                    started == IF parser.inParm THEN {}
                               ELSE {line \in TypeLines :
                                        parser' = LineStep(parser, line, CurrentFile)}
                IN  IF started # {}
                    THEN /\ Len(after) = Len(before) + 1
                         /\ SubSeq(after, 1, Len(before)) = before
                         /\ \A line \in started :
                               after[Len(after)].type = MatchType(Trim(line)).cap
                         /\ after[Len(after)].parameters = <<>>
                    ELSE /\ Len(after) = Len(before)
                         /\ SubSeq(after, 1, Len(after) - 1)
                               = SubSeq(before, 1, Len(before) - 1)
       /\ (phase = "lines" /\ phase' = "entry")
             => sceneNodes' = sceneNodes \o ReturnedNodes(parser, CurrentFile)]_vars

\* an entry has handed two nodes to the Scene in the order of their type lines, the
\* first named and with a finished parameter, the second begun after it
C30_Witness ==
    /\ phase = "entry"
    /\ Len(sceneNodes) = 2
    /\ sceneNodes[1].name = "box1"
    /\ Len(sceneNodes[1].parameters) = 1
    /\ sceneNodes[2].name = ""

\* the text after the last "/" of a node path
PathLeaf(path) ==
    LET slashes == {i \in 1..Len(path) : Ch(path, i) = "/"}
        last == IF slashes = {} THEN 0 ELSE CHOOSE i \in slashes : \A k \in slashes : k <= i
    IN  SubSeq(path, last + 1, Len(path))

\* C31: in every returned Scene the local name of a Node is the last segment of its
\* path: a Node with a name line has path = base path / name, and a Node without one
\* has path = base path and the base path's last segment as its name.
C31_NameIsLastPathSegment ==
    phase = "done"
        => \A i \in 1..Len(sceneNodes) : sceneNodes[i].name = PathLeaf(sceneNodes[i].path)

\* the parameters of the nodes the walk would return, in order
RECURSIVE ParamsOf(_)
ParamsOf(nodes) ==
    IF nodes = <<>> THEN <<>> ELSE Head(nodes).parameters \o ParamsOf(Tail(nodes))

\* the lines of the catalogue that take the walk from p to q
LinesFed(p, q, filename) == {line \in Lines : q = LineStep(p, line, filename)}

\* C32: a parm block contributes at most one Parameter: the brace depth starts at 1,
\* every line inside the block adds its "{" and takes off its "}", and the Parameter is
\* appended to the current Node at the line where the depth first reaches 0 or below,
\* and only if it has a name and a Node is active; until then the block stays open,
\* nested blocks included; no other line appends a Parameter, and every Parameter name
\* in the Scene is non-empty.
C32_ParmBlockOneParameter ==
    /\ [](\A prm \in SceneParams : prm.name # "")
    /\ [][(phase = "lines" /\ phase' = "lines")
             => LET before == ParamsOf(ReturnedNodes(parser, CurrentFile))
                    after == ParamsOf(ReturnedNodes(parser', CurrentFile))
                IN  IF ~parser.inParm
                    THEN /\ after = before
                         /\ parser'.inParm => parser'.parmDepth = 1
                    ELSE \A line \in LinesFed(parser, parser', CurrentFile) :
                            LET depth == parser.parmDepth + BraceDelta(Trim(line))
                            IN  IF depth <= 0
                                THEN /\ ~parser'.inParm
                                     /\ IF parser.currentParmName # "" /\ parser.currentNode # Null
                                        THEN /\ Len(after) = Len(before) + 1
                                             /\ SubSeq(after, 1, Len(before)) = before
                                             /\ after[Len(after)].name = parser.currentParmName
                                        ELSE after = before
                                ELSE /\ parser'.inParm
                                     /\ parser'.parmDepth = depth
                                     /\ after = before]_vars

\* the line contains parmdef or "default {", or is an expression line
MarksNonDefault(line) ==
    \/ Includes(Trim(line), "parmdef")
    \/ Includes(Trim(line), "default {")
    \/ MatchExpression(Trim(line)).ok

\* C33: a Parameter starts with isDefault = true at the "parm {" line and ends with
\* isDefault = false exactly when some line of its parm block contains parmdef or
\* "default {" or is an expression line: every line of the block that does so clears
\* the flag, no other line changes it, and the Parameter is appended with the flag as
\* it then stands.
C33_DefaultUnlessMarked ==
    [][(phase = "lines" /\ phase' = "lines")
          => \A line \in LinesFed(parser, parser', CurrentFile) :
                LET after == ParamsOf(ReturnedNodes(parser', CurrentFile))
                    flag == parser.currentParmIsDefault /\ ~MarksNonDefault(line)
                IN  IF ~parser.inParm
                    THEN parser'.inParm => parser'.currentParmIsDefault
                    ELSE IF Trim(line) = "parm {" THEN parser'.currentParmIsDefault
                    ELSE IF parser'.inParm THEN parser'.currentParmIsDefault = flag
                    ELSE parser.currentParmName # "" /\ parser.currentNode # Null
                            => after[Len(after)].isDefault = flag]_vars

\* the edges the two connection lines of the catalogue stand for in an entry
EdgesOf(filename) ==
    {[from |-> BasePath(filename) \o "/box1", fromOutput |-> 0,
      to |-> "/obj/out", toInput |-> 12],
     [from |-> BasePath(filename) \o "/box1", fromOutput |-> 0,
      to |-> BasePath(filename), toInput |-> 3]}

\* C34: every wire or input line of a non-header entry emits exactly one Connection, in
\* document order, with the endpoints resolved against the base path: a line of the
\* walk appends at most one edge after those of the entry so far, that edge is the one
\* the line stands for, and the end of the entry hands the entry's edges to the Scene
\* after those already there, whether or not the entry defines a node.
C34_EveryConnectionLineEmits ==
    [][/\ (phase = "lines" /\ phase' = "lines")
             => \/ entryConnections' = entryConnections
                \/ \E edge \in EdgesOf(CurrentFile) :
                      entryConnections' = Append(entryConnections, edge)
       /\ (phase = "lines" /\ phase' = "entry")
             => sceneConnections' = sceneConnections \o entryConnections]_vars

\* C37: each entry is parsed on its own: the walk of an entry starts with every local
\* of the parser at its initial value and no pending edge, however the entry before it
\* ended (inside a parm block, with a node in progress); while an entry is walked the
\* Scene is not touched; and the end of an entry leaves what earlier entries gave to
\* the Scene in place and adds nothing but what its own walk produced.
C37_EntriesIndependent ==
    [][/\ (phase = "entry" /\ phase' = "lines")
             => /\ parser' = NewParser
                /\ entryConnections' = <<>>
                /\ sceneNodes' = sceneNodes /\ sceneConnections' = sceneConnections
       /\ (phase = "lines" /\ phase' = "lines")
             => sceneNodes' = sceneNodes /\ sceneConnections' = sceneConnections
       /\ (phase = "lines" /\ phase' = "entry")
             => /\ IsPrefix(sceneNodes, sceneNodes')
                /\ IsPrefix(sceneConnections, sceneConnections')
                /\ SubSeq(sceneNodes', Len(sceneNodes) + 1, Len(sceneNodes'))
                      \in {<<>>, ReturnedNodes(parser, CurrentFile)}
                /\ SubSeq(sceneConnections', Len(sceneConnections) + 1, Len(sceneConnections'))
                      \in {<<>>, entryConnections}]_vars

\* the walk of a second entry has begun with fresh locals and has read a line, after a
\* first entry that gave a node and an edge to the Scene
C37_Witness ==
    /\ phase = "lines"
    /\ keyIdx = 2
    /\ ~parser.inParm
    /\ parser.currentNode # Null
    /\ parser.currentNode[1].parameters = <<>>
    /\ Len(sceneNodes) = 1
    /\ Len(sceneConnections) = 1
    /\ linesFed = 5

\* the normalized names of the entries that are no header entries, one per entry, in
\* archive order
RECURSIVE WalkedNames(_)
WalkedNames(names) ==
    IF names = <<>> THEN <<>>
    ELSE LET filename == normalizeFilename(Head(names))
         IN  (IF IsHeaderFile(filename) THEN <<>> ELSE <<filename>>) \o WalkedNames(Tail(names))

\* C40: every entry that is no header entry is parsed: parseNodes walks one content per
\* such entry, in archive order, also when two entries have the same normalized
\* filename, so that the Nodes and Connections of both reach the Scene.
C40_EveryEntryParsed ==
    [][(phase = "split" /\ phase' = "entry") => nodeEntries' = WalkedNames(entryNames)]_vars

-----------------------------------------------------------------------------
(* Bytes, buffers and numbers of the Archive Reader                        *)

DigitChars == "0123456789"

PosIn(table, c) == CHOOSE i \in 1..Len(table) : Ch(table, i) = c

IsIn(table, c) == \E i \in 1..Len(table) : Ch(table, i) = c

\* the ASCII code of a character: digits from 0x30, capitals from 0x41, small letters
\* from 0x61, and the punctuation file names and header fields use
Ord(c) ==
    IF IsIn(DigitChars, c) THEN 47 + PosIn(DigitChars, c)
    ELSE IF IsIn(UpperCase, c) THEN 64 + PosIn(UpperCase, c)
    ELSE IF IsIn(LowerCase, c) THEN 96 + PosIn(LowerCase, c)
    ELSE IF c = " " THEN 32
    ELSE IF c = "!" THEN 33
    ELSE IF c = "+" THEN 43
    ELSE IF c = "-" THEN 45
    ELSE IF c = "." THEN 46
    ELSE IF c = "/" THEN 47
    ELSE 95

\* Buffer.from(s, "ascii") of a printable string
RECURSIVE Bytes(_)
Bytes(s) == IF s = "" THEN <<>> ELSE <<Ord(Head(s))>> \o Bytes(Tail(s))

\* buf.toString("ascii"): the character codes, each byte with its highest bit unset
AsciiDecode(buf) == [i \in 1..Len(buf) |-> buf[i] % 128]

\* buf.toString("utf-8") as character codes: an ASCII byte is its own code; a byte
\* 0x80..0xFF standing alone is malformed and decodes to U+FFFD
Utf8Decode(buf) == [i \in 1..Len(buf) |-> IF buf[i] < 128 THEN buf[i] ELSE 65533]

\* a JavaScript number: an integer or NaN
NaN == [nan |-> TRUE, v |-> 0]

Num(v) == [nan |-> FALSE, v |-> v]

\* a + b
NumAdd(a, b) == IF a.nan \/ b.nan THEN NaN ELSE Num(a.v + b.v)

\* a > b
NumGt(a, b) == ~a.nan /\ ~b.nan /\ a.v > b.v

\* ToInt32 / index coercion of a number within the 32-bit range: NaN becomes 0
ToInt(a) == IF a.nan THEN 0 ELSE a.v

\* Buffer's adjustOffset: a negative index counts from the end, all clamped to 0..length
AdjustOffset(i, length) ==
    IF i < 0 THEN Max(i + length, 0) ELSE Min(i, length)

\* buf.subarray(start, end)
Subarray(buf, start, end) ==
    LET a == AdjustOffset(start, Len(buf))
        b == AdjustOffset(end, Len(buf))
    IN  IF b > a THEN SubSeq(buf, a + 1, b) ELSE <<>>

\* buf.indexOf(pattern, byteOffset): first index >= byteOffset, -1 when there is none
IndexOf(buf, pattern, byteOffset) ==
    LET from == IF byteOffset < 0 THEN Max(byteOffset + Len(buf), 0) ELSE byteOffset
        hits == {i \in from..(Len(buf) - Len(pattern)) :
                    SubSeq(buf, i + 1, i + Len(pattern)) = pattern}
    IN  IF hits = {} THEN -1 ELSE CHOOSE i \in hits : \A j \in hits : i <= j

HexDigitCodes == Bytes("0123456789abcdef")

HexUpperCodes == Bytes("0123456789ABCDEF")

IsHexCode(c) == \E d \in 1..16 : HexDigitCodes[d] = c \/ HexUpperCodes[d] = c

HexValue(c) == (CHOOSE d \in 1..16 : HexDigitCodes[d] = c \/ HexUpperCodes[d] = c) - 1

\* the value of the longest run of hexadecimal digits of codes from index i, given the
\* value acc of the digits before it
RECURSIVE HexRun(_, _, _)
HexRun(codes, i, acc) ==
    IF i <= Len(codes) /\ IsHexCode(codes[i])
    THEN HexRun(codes, i + 1, acc * 16 + HexValue(codes[i]))
    ELSE acc

RECURSIVE SkipWsCodes(_, _)
SkipWsCodes(codes, i) ==
    IF i <= Len(codes) /\ codes[i] \in {9, 10, 11, 12, 13, 32}
    THEN SkipWsCodes(codes, i + 1)
    ELSE i

\* parseInt(str, 16) of a string given by its character codes: leading white space, an
\* optional sign, an optional 0x, then the longest run of hexadecimal digits; NaN when
\* that run is empty
ParseIntHex(codes) ==
    LET a == SkipWsCodes(codes, 1)
        negative == a <= Len(codes) /\ codes[a] = Ord("-")
        b == IF a <= Len(codes) /\ codes[a] \in {Ord("-"), Ord("+")} THEN a + 1 ELSE a
        c == IF b + 1 <= Len(codes) /\ codes[b] = Ord("0") /\ codes[b + 1] \in {Ord("x"), Ord("X")}
             THEN b + 2 ELSE b
    IN  IF c <= Len(codes) /\ IsHexCode(codes[c])
        THEN Num((IF negative THEN -1 ELSE 1) * HexRun(codes, c, 0))
        ELSE NaN

CPIO_MAGIC == Bytes("070701")

CPIO_HEADER_SIZE == 110

CPIO_TRAILER == Bytes("TRAILER!!!")

ScanLimit == 256

align4Down(value) == (value \div 4) * 4

\* (value + 3) & ~3 on a value within the 32-bit range
align4(value) == ((value + 3) \div 4) * 4

-----------------------------------------------------------------------------
(* parseCpioArchive: one iteration of the entry loop                       *)

\* the outcome of one iteration: break, or continue with a new offset and entry list
Break == [break |-> TRUE, offset |-> 0, entries |-> <<>>, bad |-> FALSE]

Continue(off, ents) == [break |-> FALSE, offset |-> off, entries |-> ents, bad |-> FALSE]

\* the three header fields the reader keeps
HeaderFields(headerStr) ==
    [mode |-> ParseIntHex(SubSeq(headerStr, 15, 22)),
     filesize |-> ParseIntHex(SubSeq(headerStr, 55, 62)),
     namesize |-> ParseIntHex(SubSeq(headerStr, 95, 102))]

\* the part of the loop body after the magic check
ParseEntry(buffer, off, ents, headerStr) ==
    LET h == HeaderFields(headerStr)
        nameOffset == off + CPIO_HEADER_SIZE
        nameEnd == NumAdd(NumAdd(Num(nameOffset), h.namesize), Num(-1))
        namePaddedEnd == align4(ToInt(NumAdd(Num(nameOffset), h.namesize)))
        filename == Utf8Decode(Subarray(buffer, nameOffset, ToInt(nameEnd)))
        dataOffset == namePaddedEnd
        dataEnd == NumAdd(Num(dataOffset), h.filesize)
        dataPaddedEnd == align4(ToInt(dataEnd))
        data == Subarray(buffer, dataOffset, ToInt(dataEnd))
    IN  IF namePaddedEnd > Len(buffer) THEN Break
        ELSE IF filename = CPIO_TRAILER THEN Break
        ELSE IF NumGt(dataEnd, Num(Len(buffer))) THEN Break
        ELSE Continue(dataPaddedEnd,
                      Append(ents, [filename |-> filename, data |-> data,
                                    filesize |-> h.filesize, mode |-> h.mode]))

\* the body of "while (offset < buffer.length)"
LoopBody(buffer, off, ents) ==
    LET headerStr == AsciiDecode(Subarray(buffer, off, off + CPIO_HEADER_SIZE))
        magic == SubSeq(headerStr, 1, Min(6, Len(headerStr)))
        nextMagic == IndexOf(buffer, CPIO_MAGIC, off + 1)
    IN  IF off + CPIO_HEADER_SIZE > Len(buffer) THEN Break
        ELSE IF magic # CPIO_MAGIC
             THEN IF nextMagic = -1 THEN Break ELSE Continue(nextMagic, ents)
        ELSE ParseEntry(buffer, off, ents, headerStr)

-----------------------------------------------------------------------------
(* gzip (node:zlib) and readCpioFromBuffer                                 *)

GzipMagic == <<31, 139>>

\* a gzip stream of payload: the magic, the payload byte by byte under a reversible
\* coding that leaves no byte as it was, and the payload's length mod 256 as check
Gzip(payload) ==
    GzipMagic \o [i \in 1..Len(payload) |-> (payload[i] + 101) % 256] \o <<Len(payload) % 256>>

\* whether gunzipSync(buf) returns rather than throws: the check byte fits the stream
GunzipOk(buf) == Len(buf) >= 3 /\ buf[Len(buf)] = (Len(buf) - 3) % 256

\* gunzipSync(buf)
Gunzip(buf) == [i \in 1..(Len(buf) - 3) |-> (buf[i + 2] + 155) % 256]

HasGzipMagic(buf) == Len(buf) >= 2 /\ buf[1] = GzipMagic[1] /\ buf[2] = GzipMagic[2]

\* the prefix skip of readCpioFromBuffer on the (decompressed) buffer: the buffer to
\* parse, or the "magic not found" error
SkipPrefix(buf) ==
    LET asStr == AsciiDecode(Subarray(buf, 0, 6))
        after4 == AsciiDecode(Subarray(buf, 4, 10))
        magicIdx == IndexOf(buf, CPIO_MAGIC, 0)
    IN  IF asStr = CPIO_MAGIC THEN [ok |-> TRUE, raw |-> buf]
        ELSE IF after4 = CPIO_MAGIC THEN [ok |-> TRUE, raw |-> Subarray(buf, 4, Len(buf))]
        ELSE IF magicIdx # -1 /\ magicIdx < ScanLimit
             THEN [ok |-> TRUE, raw |-> Subarray(buf, magicIdx, Len(buf))]
        ELSE [ok |-> FALSE, raw |-> <<>>]

-----------------------------------------------------------------------------
(* Input buffers: CPIO "newc" archives, assembled and then wrapped or damaged *)

HexChars == "0123456789ABCDEF"

\* n as w hexadecimal digits
RECURSIVE ToHex(_, _)
ToHex(n, w) == IF w = 0 THEN "" ELSE ToHex(n \div 16, w - 1) \o Ch(HexChars, (n % 16) + 1)

Zeros(n) == [i \in 1..n |-> 0]

HexZero == Bytes(ToHex(0, 8))

HexOne == Bytes(ToHex(1, 8))

\* the 110-byte header: magic, then thirteen 8-digit fields of which mode (2nd),
\* filesize (7th) and namesize (12th) are given as text
HeaderBytes(modeField, filesizeField, namesizeField) ==
    CPIO_MAGIC \o HexOne \o Bytes(modeField) \o HexZero \o HexZero \o HexOne \o HexZero
        \o Bytes(filesizeField) \o HexZero \o HexZero \o HexZero \o HexZero
        \o Bytes(namesizeField) \o HexZero

\* one member: header, NUL-terminated name padded to 4 bytes, payload padded to 4 bytes
MemberBytes(name, data, fields) ==
    LET nameBytes == Bytes(name) \o <<0>>
        head == HeaderBytes(fields.mode, fields.filesize, fields.namesize) \o nameBytes
        padded == head \o Zeros(align4(Len(head)) - Len(head))
    IN  padded \o data \o Zeros(align4(Len(data)) - Len(data))

\* the header fields of a correctly written member
TrueFields(name, data) ==
    [mode |-> ToHex(33188, 8), filesize |-> ToHex(Len(data), 8),
     namesize |-> ToHex(Len(name) + 1, 8)]

RECURSIVE MembersBytes(_)
MembersBytes(files) ==
    IF files = <<>> THEN <<>>
    ELSE MemberBytes(files[1].name, files[1].data, TrueFields(files[1].name, files[1].data))
         \o MembersBytes(Tail(files))

TrailerBytes == MemberBytes("TRAILER!!!", <<>>, TrueFields("TRAILER!!!", <<>>))

\* a correctly assembled archive of files, ended by the TRAILER!!! member
Assemble(files) == MembersBytes(files) \o TrailerBytes

Payloads == {<<>>, Bytes("type"), Bytes("07070100") \o <<200, 0>>}

MemberNames == {"a", "obj/geo1"}

ArchiveFiles == [name : MemberNames, data : Payloads]

\* n junk bytes 1, 2, 3, 4, 1, ...
Junk(n) == [i \in 1..n |-> ((i - 1) % 4) + 1]

JunkLengths == {1, 4, ScanLimit - 1, ScanLimit}

FieldTexts == {"ZZZZZZZZ", "0000000G", "00000000", "0FFFFFFF", "-000006E"}

FieldNames == {"mode", "filesize", "namesize"}

\* the archive with one field of its first header overwritten by text
Damaged(files, field, text) ==
    LET name == IF files = <<>> THEN "TRAILER!!!" ELSE files[1].name
        data == IF files = <<>> THEN <<>> ELSE files[1].data
        fields == [TrueFields(name, data) EXCEPT ![field] = text]
    IN  MemberBytes(name, data, fields)
        \o (IF files = <<>> THEN <<>> ELSE MembersBytes(Tail(files)) \o TrailerBytes)

\* the ways an input buffer is made from a list of files
Makings ==
    [kind : {"plain", "gzip", "prefixInsideGzip", "prefixBeforeGzip", "highBitMagic",
             "afterTrailer"},
     junk : {4}, field : {"mode"}, text : {"00000000"}]
    \cup [kind : {"junkPrefix"}, junk : JunkLengths, field : {"mode"}, text : {"00000000"}]
    \cup [kind : {"damaged"}, junk : {4}, field : FieldNames, text : FieldTexts]

\* the first six bytes (the magic) with their highest bit set
HighBitMagic(buf) == [i \in 1..Len(buf) |-> IF i <= 6 THEN buf[i] + 128 ELSE buf[i]]

BufferOf(files, making) ==
    CASE making.kind = "plain" -> Assemble(files)
      [] making.kind = "gzip" -> Gzip(Assemble(files))
      [] making.kind = "prefixInsideGzip" -> Gzip(Junk(4) \o Assemble(files))
      [] making.kind = "prefixBeforeGzip" -> Junk(4) \o Gzip(Assemble(files))
      [] making.kind = "highBitMagic" -> HighBitMagic(Assemble(files))
      [] making.kind = "afterTrailer" -> Assemble(files) \o MembersBytes(<<[name |-> "a", data |-> Bytes("type")]>>)
      [] making.kind = "junkPrefix" -> Junk(making.junk) \o Assemble(files)
      [] making.kind = "damaged" -> Damaged(files, making.field, making.text)

-----------------------------------------------------------------------------
(* The Archive Reader as a state machine                                   *)

ReaderInit ==
    /\ \E files \in SeqsUpTo(ArchiveFiles, MaxArchiveFiles), making \in Makings :
          /\ archive = [files |-> files, making |-> making]
          /\ input = BufferOf(files, making)
    /\ raw = <<>>
    /\ rpc = "start"
    /\ offset = 0
    /\ entries = <<>>
    /\ iterations = 0
    /\ badHeader = FALSE

\* readCpioFromBuffer up to the call of parseCpioArchive: gunzip when the gzip magic
\* leads, then the prefix skip; either may throw
ReadStart ==
    /\ rpc = "start"
    /\ LET unzipped == IF HasGzipMagic(input) THEN Gunzip(input) ELSE input
           skipped == SkipPrefix(unzipped)
       IN  IF HasGzipMagic(input) /\ ~GunzipOk(input)
           THEN rpc' = "error" /\ raw' = raw
           ELSE IF skipped.ok
                THEN rpc' = "loop" /\ raw' = skipped.raw
                ELSE rpc' = "error" /\ raw' = unzipped
    /\ UNCHANGED <<archive, input, offset, entries, iterations, badHeader>>
    /\ UNCHANGED <<parserVars, filterVars, cacheVars, extractVars, statsVars, helperVars>>

\* whether the 110 bytes at off carry the magic and a kept field that is not eight
\* hexadecimal digits
IsBadHeader(buffer, off) ==
    LET headerStr == AsciiDecode(Subarray(buffer, off, off + CPIO_HEADER_SIZE))
    IN  /\ Len(headerStr) = CPIO_HEADER_SIZE
        /\ SubSeq(headerStr, 1, 6) = CPIO_MAGIC
        /\ \E k \in (15..22) \cup (55..62) \cup (95..102) : ~IsHexCode(headerStr[k])

\* one iteration of parseCpioArchive's loop, or its end
LoopIteration ==
    /\ rpc = "loop"
    /\ iterations < MaxIterations
    /\ LET step == LoopBody(raw, offset, entries)
       IN  IF ~(offset < Len(raw)) \/ step.break
           THEN rpc' = "done" /\ UNCHANGED <<offset, entries>>
           ELSE rpc' = "loop" /\ offset' = step.offset /\ entries' = step.entries
    /\ badHeader' = (badHeader \/ (offset < Len(raw) /\ IsBadHeader(raw, offset)))
    /\ iterations' = iterations + 1
    /\ UNCHANGED <<archive, input, raw>>
    /\ UNCHANGED <<parserVars, filterVars, cacheVars, extractVars, statsVars, helperVars>>

ReaderNext == ReadStart \/ LoopIteration

InitReader == ReaderInit /\ ParserIdle /\ FilterIdle /\ CacheIdle /\ ExtractIdle /\ StatsIdle /\ HelperIdle

SpecReader == InitReader /\ [][ReaderNext]_vars

-----------------------------------------------------------------------------
(* Claims about the Archive Reader                                         *)

\* the entries read are the files the archive was assembled from, name and payload
EntriesAreFiles ==
    /\ Len(entries) = Len(archive.files)
    /\ \A i \in 1..Len(entries) :
          /\ entries[i].filename = Bytes(archive.files[i].name)
          /\ entries[i].data = archive.files[i].data

CorrectlyAssembled == archive.making.kind \in {"plain", "gzip", "afterTrailer"}

\* C4: a correctly assembled archive of N files and the TRAILER!!! member, plain or
\* gzip-compressed, with or without a member after the trailer, is read without error
\* as exactly its N files in file order, names and payload bytes as assembled.
C4_RoundTrip ==
    (rpc \in {"done", "error"} /\ CorrectlyAssembled) => (rpc = "done" /\ EntriesAreFiles)

\* two files read back, one with the magic inside its payload, from an archive that
\* goes on after its trailer
C4_Witness ==
    /\ rpc = "done"
    /\ archive.making.kind = "afterTrailer"
    /\ Len(entries) = 2
    /\ entries[1].data = Bytes("07070100") \o <<200, 0>>
    /\ entries[2].data = Bytes("type")

\* C5: four junk bytes put before a gzip-compressed archive do not change what is read:
\* no error, and the same entries as without them.
C5_PrefixBeforeGzip ==
    archive.making.kind = "prefixBeforeGzip" =>
        /\ rpc # "error"
        /\ (rpc = "done" => EntriesAreFiles)

\* C6: the read offset strictly increases on every iteration of the entry loop.
C6_OffsetIncreases ==
    [][(rpc = "loop" /\ rpc' = "loop") => offset' > offset]_vars

\* C7: a header that has the magic and a mode, filesize or namesize field that is not
\* hexadecimal makes the reader fail.
C7_BadHeaderFails == badHeader => rpc = "error"

\* the buffer the prefix skip looks at: the input, decompressed when it is gzip
Decompressed == IF HasGzipMagic(input) THEN Gunzip(input) ELSE input

MagicAt(buf, i) == i + 6 <= Len(buf) /\ SubSeq(buf, i + 1, i + 6) = CPIO_MAGIC

\* C8: after decompression the buffer is accepted iff the magic starts at one of its
\* first 256 offsets (0 and 4 among them), and is then parsed from the first such
\* offset on; otherwise the reader fails.
C8_AcceptedIffMagic ==
    rpc # "start" =>
        LET found == {i \in 0..(ScanLimit - 1) : MagicAt(Decompressed, i)}
        IN  /\ (rpc # "error") <=> (found # {})
            /\ (rpc # "error") =>
                  \E i \in found :
                      /\ \A j \in found : i <= j
                      /\ raw = Subarray(Decompressed, i, Len(Decompressed))

-----------------------------------------------------------------------------
(* filterTextEntries                                                       *)

\* the sample of an entry's data that is looked at
SampleSize == 512

\* tab, newline, carriage return and printable ASCII
IsTextByte(byte) ==
    \/ byte = 9 \/ byte = 10 \/ byte = 13
    \/ (byte >= 32 /\ byte <= 126)

\* the callback of entries.filter
LooksLikeText(entry) ==
    IF ~entry.filesize.nan /\ entry.filesize.v = 0 THEN FALSE
    ELSE LET sample == Subarray(entry.data, 0, Min(SampleSize, Len(entry.data)))
         IN  \A i \in 1..Len(sample) : IsTextByte(sample[i])

filterTextEntries(ents) == SelectSeq(ents, LooksLikeText)

\* An entry as parseCpioArchive returns it for a member of `size` bytes, all "A" but
\* for `byte` at position `pos`.
FileEntry(size, pos, byte) ==
    [filename |-> "f", mode |-> Num(33188), filesize |-> Num(size),
     data |-> [i \in 1..size |-> IF i = pos THEN byte ELSE 65]]

\* An entry as parseCpioArchive returns it for a header whose filesize field reads as
\* a negative number ("-000006E"): the data is the empty slice.
NegativeSizeEntry ==
    [filename |-> "f", mode |-> Num(33188), filesize |-> Num(-110), data |-> <<>>]

\* entries of 1 and of 513 bytes with a probe byte (NUL, the edges of the text ranges,
\* a high byte) at offset 0, 511 or 512; an empty entry; one of a negative size
FilterCatalogue ==
    {FileEntry(size, pos, byte) :
        size \in {1, SampleSize + 1},
        pos \in {1, SampleSize, SampleSize + 1},
        byte \in {0, 8, 9, 10, 13, 14, 31, 32, 126, 127, 255}}
    \cup {FileEntry(0, 1, 65), NegativeSizeEntry}

FilterInit ==
    /\ filterInput \in SeqsUpTo(FilterCatalogue, MaxFilterEntries)
    /\ filterOutput = <<>>
    /\ fpc = "call"

\* filterTextEntries(entries) runs and returns
FilterCall ==
    /\ fpc = "call"
    /\ filterOutput' = filterTextEntries(filterInput)
    /\ fpc' = "done"
    /\ UNCHANGED <<filterInput, parserVars, readerVars, cacheVars, extractVars, statsVars, helperVars>>

InitFilter == FilterInit /\ ParserIdle /\ ReaderIdle /\ CacheIdle /\ ExtractIdle /\ StatsIdle /\ HelperIdle

SpecFilter == InitFilter /\ [][FilterCall]_vars

-----------------------------------------------------------------------------
(* Claims on the Text Filter                                               *)

\* what the filter is said to keep: a size above zero and only text bytes among the
\* first min(512, size) bytes of the data
SaidToBeKept(entry) ==
    /\ NumGt(entry.filesize, Num(0))
    /\ \A i \in 1..Min(SampleSize, entry.filesize.v) :
          i <= Len(entry.data) /\ IsTextByte(entry.data[i])

\* C9: the filter returns exactly the entries whose declared size is above zero and
\* whose first min(512, size) bytes are all tab, newline, carriage return or printable
\* ASCII, in their order.
C9_KeptIffText ==
    fpc = "done" => filterOutput = SelectSeq(filterInput, SaidToBeKept)

-----------------------------------------------------------------------------
(* The Cache Manager: values and pure helpers of hip-downloader.ts         *)

\* the cache directory of the run (options.cacheDir)
CacheDir == "cache"

\* response bodies, and crypto.createHash("sha256").update(buffer).digest("hex") of
\* each: the digests of the first two agree in their first 12 digits
Bodies == {"hip-1333413", "hip-29609185", ""}

Sha256(body) ==
    CASE body = "hip-1333413" ->
           "2f8120000a09361caf4f9616d9564a071673f4a5adc28d97ab666426c981c22d"
      [] body = "hip-29609185" ->
           "2f8120000a09b3a8891b5ce59ebaa4deca61a278e47f13058bcd67ffc0c78521"
      [] body = "" ->
           "e3b0c44298fc1c149afbf4c8996fb92427ae41e4649b934ca495991b7852b855"

\* two sources whose last path segment is the same, and a third
Urls == {"http://a/y%20z.hip", "http://b/y%20z.hip", "http://c/w.hip"}

\* url.split("/").pop()
LastSegment(url) ==
    LET slashes == {i \in 1..Len(url) : Ch(url, i) = "/"}
        last == IF slashes = {} THEN 0 ELSE CHOOSE i \in slashes : \A k \in slashes : k <= i
    IN  SubSeq(url, last + 1, Len(url))

\* decodeURIComponent(s): the escape %20 is a space; a "%" that starts no escape is a
\* URIError (ok = FALSE)
RECURSIVE decodeURIComponent(_)
decodeURIComponent(s) ==
    IF s = "" THEN [ok |-> TRUE, text |-> ""]
    ELSE IF Head(s) # "%"
         THEN LET rest == decodeURIComponent(Tail(s))
              IN  [ok |-> rest.ok, text |-> Head(s) \o rest.text]
    ELSE IF StartsWith(s, "%20")
         THEN LET rest == decodeURIComponent(SubSeq(s, 4, Len(s)))
              IN  [ok |-> rest.ok, text |-> " " \o rest.text]
    ELSE [ok |-> FALSE, text |-> ""]

\* name.replace(/[^a-zA-Z0-9._-]/g, "_").slice(0, 100)
RECURSIVE ReplaceUnsafe(_)
ReplaceUnsafe(name) ==
    IF name = "" THEN ""
    ELSE LET c == Head(name)
             safe == \/ IsIn(LowerCase, c) \/ IsIn(UpperCase, c) \/ IsIn(DigitChars, c)
                     \/ c \in {".", "_", "-"}
         IN  (IF safe THEN c ELSE "_") \o ReplaceUnsafe(Tail(name))

NameLimit == 100

sanitizeFilename(name) ==
    LET replaced == ReplaceUnsafe(name)
    IN  SubSeq(replaced, 1, Min(NameLimit, Len(replaced)))

\* path.join(cacheDir, `${hash.slice(0, 12)}-${sanitizeFilename(fileName)}`)
HashPrefixLen == 12

LocalPath(hash, fileName) ==
    CacheDir \o "/" \o SubSeq(hash, 1, HashPrefixLen) \o "-" \o sanitizeFilename(fileName)

\* fs.existsSync(path) on the files of the cache directory
ExistsSync(files, path) == path \in DOMAIN files

\* fs.writeFileSync(path, content)
WriteFileSync(files, path, content) ==
    [q \in DOMAIN files \cup {path} |-> IF q = path THEN content ELSE files[q]]

\* fs.unlinkSync(path)
UnlinkSync(files, path) == [q \in DOMAIN files \ {path} |-> files[q]]

\* manifest.entries[url] of a manifest kept as the sequence of its entries in
\* property order: Null when there is no such property
ManifestGet(manifest, url) ==
    LET hits == {i \in 1..Len(manifest) : manifest[i].source = url}
    IN  IF hits = {} THEN Null ELSE Some(manifest[CHOOSE i \in hits : TRUE])

\* delete manifest.entries[url]
ManifestDelete(manifest, url) == SelectSeq(manifest, LAMBDA en : en.source # url)

\* manifest.entries[url] = entry: an existing property keeps its place
ManifestSet(manifest, url, entry) ==
    IF ManifestGet(manifest, url) = Null THEN Append(manifest, entry)
    ELSE [i \in 1..Len(manifest) |-> IF manifest[i].source = url THEN entry ELSE manifest[i]]

\* the entries ordered by downloadedAt, oldest first; Array.prototype.sort is stable
RECURSIVE SortByTime(_)
SortByTime(ents) ==
    IF ents = <<>> THEN <<>>
    ELSE LET e == ents[Len(ents)]
             sorted == SortByTime(SubSeq(ents, 1, Len(ents) - 1))
             k == Cardinality({i \in 1..Len(sorted) : sorted[i].downloadedAt <= e.downloadedAt})
         IN  SubSeq(sorted, 1, k) \o <<e>> \o SubSeq(sorted, k + 1, Len(sorted))

RECURSIVE SumSizes(_)
SumSizes(ents) == IF ents = <<>> THEN 0 ELSE Head(ents).size + SumSizes(Tail(ents))

\* the while loop of enforceCacheLimit had it taken the newest entry first
RECURSIVE EvictNewest(_, _, _, _, _, _, _)
EvictNewest(sortedEntries, totalSize, files, manifest, maxSize, failing, keys) ==
    IF totalSize > maxSize /\ sortedEntries # <<>>
    THEN LET entry == sortedEntries[Len(sortedEntries)]
             throws == ExistsSync(files, entry.localPath) /\ entry.localPath \in failing
         IN  EvictNewest(SubSeq(sortedEntries, 1, Len(sortedEntries) - 1),
                         IF throws THEN totalSize ELSE totalSize - entry.size,
                         IF throws THEN files ELSE UnlinkSync(files, entry.localPath),
                         ManifestDelete(manifest, entry.source), maxSize, failing,
                         Append(keys, entry.source))
    ELSE [files |-> files, manifest |-> manifest, keys |-> keys]

\* the while loop of enforceCacheLimit; failing holds the paths at which
\* fs.unlinkSync throws, which leaves the file and the running total as they are and
\* deletes the row in the catch; keys are the rows deleted so far
RECURSIVE EvictOldest(_, _, _, _, _, _, _)
EvictOldest(sortedEntries, totalSize, files, manifest, maxSize, failing, keys) ==
    IF totalSize > maxSize /\ sortedEntries # <<>>
    THEN LET entry == Head(sortedEntries)
             throws == ExistsSync(files, entry.localPath) /\ entry.localPath \in failing
         IN  EvictOldest(Tail(sortedEntries),
                         IF throws THEN totalSize ELSE totalSize - entry.size,
                         IF throws THEN files ELSE UnlinkSync(files, entry.localPath),
                         ManifestDelete(manifest, entry.source), maxSize, failing,
                         Append(keys, entry.source))
    ELSE [files |-> files, manifest |-> manifest, keys |-> keys]

enforceCacheLimit(files, manifest, maxSize, failing) ==
    EvictOldest(SortByTime(manifest), SumSizes(manifest), files, manifest, maxSize,
                failing, <<>>)

-----------------------------------------------------------------------------
(* downloadHipFile and downloadHipFiles                                    *)

\* byte budgets of a batch (options.maxCacheSize): one that the larger body exceeds and
\* one that nothing here exceeds
Budgets == {11, 1000}

\* what fetch(url) comes to: a 2xx response with a body, another status, a rejection
Responses ==
    {[kind |-> "ok", body |-> b] : b \in Bodies}
    \cup {[kind |-> "notOk", body |-> ""], [kind |-> "throw", body |-> ""]}

\* loadManifest: JSON.parse of what saveManifest wrote, every row as it was saved
loadManifest(onDisk) == onDisk

\* call 0 is the one downloadHipFiles makes, the others are made directly by other
\* callers, each once
CallIds == 0..MaxCalls

IdleCall == [pc |-> "idle", url |-> "", manifest |-> <<>>, fetched |-> "", result |-> Null]

\* response.ok had it been true of every response
ResponseArrived(response) == response.kind # "throw"

\* response.ok of a fetch that did not reject
ResponseOk(response) == response.kind = "ok"

\* downloadHipFile up to its first await had it fetched whatever the manifest holds
BeginDownloadAnew(files, onDisk, url) ==
    [pc |-> "fetch", url |-> url, manifest |-> ManifestDelete(loadManifest(onDisk), url),
     fetched |-> "", result |-> Null]

\* downloadHipFile up to its first await: the cached entry is returned when its file
\* exists, else the fetch is under way with the manifest that was loaded
BeginDownload(files, onDisk, url) ==
    LET manifest == loadManifest(onDisk)
        cached == ManifestGet(manifest, url)
    IN  IF cached # Null /\ ExistsSync(files, cached[1].localPath)
        THEN [pc |-> "done", url |-> url, manifest |-> <<>>, fetched |-> "",
              result |-> cached]
        ELSE [pc |-> "fetch", url |-> url, manifest |-> ManifestDelete(manifest, url),
              fetched |-> "", result |-> Null]

CacheInit ==
    /\ disk = <<>>
    /\ manifestFile = <<>>
    /\ clock = 0
    /\ calls = [c \in CallIds |-> IdleCall]
    /\ evicted = <<>>
    /\ midway = <<>>
    /\ \E urls \in SeqsUpTo(Urls, MaxBatch), maxCacheSize \in Budgets :
          batch = [pc |-> IF urls = <<>> THEN "done" ELSE "loop", urls |-> urls, i |-> 1,
                   maxCacheSize |-> maxCacheSize,
                   result |-> [downloaded |-> 0, skipped |-> 0, errors |-> 0,
                               entries |-> <<>>],
                   log |-> <<>>]

\* downloadHipFile(url) is called directly
DownloadStart(c) ==
    /\ c # 0
    /\ calls[c].pc = "idle"
    /\ \E url \in Urls : calls' = [calls EXCEPT ![c] = BeginDownload(disk, manifestFile, url)]
    /\ midway' = <<>>
    /\ UNCHANGED <<disk, manifestFile, clock, batch, evicted>>
    /\ UNCHANGED <<parserVars, readerVars, filterVars, extractVars, statsVars, helperVars>>

\* the fetch of call c settles and downloadHipFile runs to its return
DownloadFetched(c) ==
    /\ calls[c].pc = "fetch"
    /\ \E response \in Responses :
          LET url == calls[c].url
              hash == Sha256(response.body)
              decoded == decodeURIComponent(LastSegment(url))
              localPath == LocalPath(hash, decoded.text)
              entry == [source |-> url, localPath |-> localPath,
                        fileName |-> decoded.text, hash |-> hash,
                        size |-> Len(response.body), downloadedAt |-> clock]
              manifest == ManifestSet(calls[c].manifest, url, entry)
          IN  IF ~ResponseOk(response) \/ ~decoded.ok
              THEN /\ calls' = [calls EXCEPT ![c] =
                                   [IdleCall EXCEPT !.pc = "done", !.url = url,
                                                    !.fetched = response.kind]]
                   /\ midway' = <<>>
                   /\ UNCHANGED <<disk, manifestFile>>
              ELSE /\ disk' = WriteFileSync(disk, localPath, response.body)
                   /\ midway' = <<[files |-> WriteFileSync(disk, localPath, response.body),
                                   manifest |-> manifestFile]>>
                   /\ manifestFile' = manifest
                   /\ calls' = [calls EXCEPT ![c] =
                                   [pc |-> "done", url |-> url, manifest |-> <<>>,
                                    fetched |-> response.kind, result |-> Some(entry)]]
    /\ UNCHANGED <<clock, batch, evicted>>
    /\ UNCHANGED <<parserVars, readerVars, filterVars, extractVars, statsVars, helperVars>>

\* batch with index i done: the next iteration, or the return after the last
NextUrl(b) ==
    [b EXCEPT !.i = b.i + 1, !.pc = IF b.i + 1 > Len(b.urls) THEN "done" ELSE "loop"]

\* options.onProgress had it been handed the loop index i in place of i + 1
OnProgressFromZero(log, done, total, fileName) ==
    Append(log, [event |-> "progress", done |-> done - 1, total |-> total,
                 fileName |-> fileName])

\* options.onProgress(done, total, fileName)
OnProgress(log, done, total, fileName) ==
    Append(log, [event |-> "progress", done |-> done, total |-> total,
                 fileName |-> fileName])

\* the end of an iteration that downloaded had it gone on without a delay
AfterDownloadNoDelay(b) == NextUrl(b)

\* the end of an iteration that downloaded: if (i < urls.length - 1) the delay
\* DOWNLOAD_DELAY_MS is awaited before the next iteration
AfterDownload(b) ==
    IF b.i < Len(b.urls)
    THEN [b EXCEPT !.pc = "sleep", !.log = Append(@, [event |-> "sleep"])]
    ELSE NextUrl(b)

\* one iteration of downloadHipFiles up to its await: a cached url is skipped, else
\* the limit is enforced, the manifest saved and downloadHipFile called
BatchIterate ==
    /\ batch.pc = "loop"
    /\ LET url == batch.urls[batch.i]
           manifest == loadManifest(manifestFile)
           cached == ManifestGet(manifest, url)
       IN  IF cached # Null /\ ExistsSync(disk, cached[1].localPath)
           THEN /\ batch' = NextUrl([batch EXCEPT
                                        !.result.skipped = @ + 1,
                                        !.result.entries = Append(@, cached[1]),
                                        !.log = OnProgress(@, batch.i, Len(batch.urls),
                                                           cached[1].fileName)])
                /\ midway' = <<>>
                /\ UNCHANGED <<disk, manifestFile, calls, evicted>>
           ELSE \E failing \in SUBSET DOMAIN disk :
                   LET limited == enforceCacheLimit(disk, manifest, batch.maxCacheSize,
                                                    failing)
                   IN  /\ disk' = limited.files
                       /\ midway' = <<[files |-> limited.files, manifest |-> manifestFile]>>
                       /\ manifestFile' = limited.manifest
                       /\ evicted' = limited.keys
                       /\ calls' = [calls EXCEPT ![0] =
                                       BeginDownload(limited.files, limited.manifest, url)]
                       /\ batch' = [batch EXCEPT
                                        !.pc = "await",
                                        !.log = Append(@, [event |-> "fetch", url |-> url])]
    /\ UNCHANGED clock
    /\ UNCHANGED <<parserVars, readerVars, filterVars, extractVars, statsVars, helperVars>>

\* downloadHipFiles resumes with the entry or null of its download, counts it, reports
\* it, and starts the delay when another url is left
BatchResume ==
    /\ batch.pc = "await"
    /\ calls[0].pc = "done"
    /\ batch' = AfterDownload(
                    IF calls[0].result # Null
                    THEN [batch EXCEPT
                             !.result.downloaded = @ + 1,
                             !.result.entries = Append(@, calls[0].result[1]),
                             !.log = OnProgress(@, batch.i, Len(batch.urls),
                                                calls[0].result[1].fileName)]
                    ELSE [batch EXCEPT
                             !.result.errors = @ + 1,
                             !.log = OnProgress(@, batch.i, Len(batch.urls),
                                                "FAILED: " \o calls[0].url)])
    /\ calls' = [calls EXCEPT ![0] = IdleCall]
    /\ midway' = <<>>
    /\ UNCHANGED <<disk, manifestFile, clock, evicted>>
    /\ UNCHANGED <<parserVars, readerVars, filterVars, extractVars, statsVars, helperVars>>

\* the timer of the delay fires and the loop goes to its next url
BatchWake ==
    /\ batch.pc = "sleep"
    /\ batch' = NextUrl([batch EXCEPT !.log = Append(@, [event |-> "wake"])])
    /\ midway' = <<>>
    /\ UNCHANGED <<disk, manifestFile, clock, calls, evicted>>
    /\ UNCHANGED <<parserVars, readerVars, filterVars, extractVars, statsVars, helperVars>>

\* time passes: new Date() reads a later instant
Tick ==
    /\ clock < MaxClock
    /\ clock' = clock + 1
    /\ UNCHANGED <<disk, manifestFile, calls, batch, evicted, midway>>
    /\ UNCHANGED <<parserVars, readerVars, filterVars, extractVars, statsVars, helperVars>>

CacheNext ==
    \/ \E c \in CallIds : DownloadStart(c)
    \/ \E c \in CallIds : DownloadFetched(c)
    \/ BatchIterate
    \/ BatchResume
    \/ BatchWake
    \/ Tick

InitCache == CacheInit /\ ParserIdle /\ ReaderIdle /\ FilterIdle /\ ExtractIdle /\ StatsIdle /\ HelperIdle

SpecCache == InitCache /\ [][CacheNext]_vars

-----------------------------------------------------------------------------
(* Claims on the Cache Manager                                             *)

\* the file of an entry is in the cache directory and hashes to the entry's hash
Intact(files, entry) ==
    /\ ExistsSync(files, entry.localPath)
    /\ Sha256(files[entry.localPath]) = entry.hash

\* C10: whenever downloadHipFile returns an entry, from the cache or freshly
\* downloaded, the file at its localPath exists and its SHA-256 is the recorded hash.
C10_ReturnedEntryIntact ==
    [][\A c \in CallIds :
          (calls[c].pc # "done" /\ calls'[c].pc = "done" /\ calls'[c].result # Null)
              => Intact(disk', calls'[c].result[1])]_vars

\* C11: every entry of the persisted manifest has its local file in the cache
\* directory, whatever downloads and evictions came before; in particular an eviction
\* never removes the file that a remaining entry points to.
C11_ManifestFilesExist ==
    \A i \in 1..Len(manifestFile) : ExistsSync(disk, manifestFile[i].localPath)

\* the rows of a manifest that another manifest no longer has
RowsGone(before, after) ==
    {i \in 1..Len(before) : ManifestGet(after, before[i].source) = Null}

\* C12: right after enforceCacheLimit with budget B the sizes of the remaining entries
\* sum to at most B, the remaining rows are untouched, and the evicted rows are a
\* prefix of the manifest in ascending downloadedAt order: no remaining entry is older
\* than an evicted one.
C12_WithinBudgetOldestFirst ==
    [][(batch.pc = "loop" /\ batch'.pc = "await")
          => LET gone == RowsGone(manifestFile, manifestFile')
             IN  /\ SumSizes(manifestFile') <= batch.maxCacheSize
                 /\ manifestFile' = SelectSeq(manifestFile,
                        LAMBDA en : \A i \in gone : manifestFile[i].source # en.source)
                 /\ \A i \in gone : \A k \in 1..Len(manifestFile') :
                        manifestFile[i].downloadedAt <= manifestFile'[k].downloadedAt]_vars

\* an eviction that deleted an older row and kept a newer one has just been saved
C12_Witness ==
    /\ batch.pc = "await"
    /\ calls[0].pc = "fetch"
    /\ evicted # <<>>
    /\ manifestFile # <<>>
    /\ manifestFile = calls[0].manifest
    /\ manifestFile[1].downloadedAt = 1

\* C13: when a download of the batch has added its entry, the sizes of the persisted
\* manifest sum to at most the budget of the batch: what had to go was evicted.
C13_WithinBudgetOnceAdded ==
    [][(calls[0].pc = "fetch" /\ calls'[0].pc = "done" /\ calls'[0].result # Null)
          => SumSizes(manifestFile') <= batch.maxCacheSize]_vars

\* C14: when downloadHipFiles returns, every entry of its DownloadResult.entries still
\* has its row in the persisted manifest and its file in the cache directory: the
\* evictions of the call spared what the call itself acquired.
C14_BatchEntriesSurvive ==
    batch.pc = "done"
        => \A i \in 1..Len(batch.result.entries) :
              LET entry == batch.result.entries[i]
              IN  /\ ManifestGet(manifestFile, entry.source) # Null
                  /\ ExistsSync(disk, entry.localPath)

\* the source has a row in the persisted manifest and the file of the row exists
IsHit(url) ==
    /\ ManifestGet(manifestFile, url) # Null
    /\ ExistsSync(disk, ManifestGet(manifestFile, url)[1].localPath)

\* C15: a call for a source whose manifest row has its file returns the stored entry
\* as it is, without a fetch, and leaves the manifest and the files as they were; in a
\* batch the source is counted as skipped, its row is pushed to the entries, and
\* nothing is evicted.
C15_HitChangesNothing ==
    [][/\ \A c \in CallIds \ {0} :
             (calls[c].pc = "idle" /\ calls'[c].pc # "idle" /\ IsHit(calls'[c].url))
                => /\ calls'[c].pc = "done"
                   /\ calls'[c].result = ManifestGet(manifestFile, calls'[c].url)
                   /\ UNCHANGED <<disk, manifestFile, evicted>>
       /\ (batch.pc = "loop" /\ batch' # batch /\ IsHit(batch.urls[batch.i]))
             => /\ batch'.result.skipped = batch.result.skipped + 1
                /\ batch'.result.entries =
                      Append(batch.result.entries,
                             ManifestGet(manifestFile, batch.urls[batch.i])[1])
                /\ batch'.result.downloaded = batch.result.downloaded
                /\ batch'.result.errors = batch.result.errors
                /\ batch'.i = batch.i + 1
                /\ UNCHANGED <<disk, manifestFile, evicted, calls>>]_vars

\* the batch has skipped a cached source while the manifest held a second row
C15_Witness ==
    /\ batch.result.skipped > 0
    /\ Len(manifestFile) > 1

\* C16: a download whose fetch is answered with a status that is not 2xx, or is
\* rejected, returns null, writes no file and leaves the persisted manifest as it
\* was; the batch counts it in errors and goes on to its next source.
C16_FailedFetchCachesNothing ==
    [][/\ \A c \in CallIds :
             (calls[c].pc = "fetch" /\ calls'[c].pc = "done"
                 /\ calls'[c].fetched \in {"notOk", "throw"})
                => /\ calls'[c].result = Null
                   /\ UNCHANGED <<disk, manifestFile>>
       /\ (batch.pc = "await" /\ batch' # batch /\ calls[0].fetched \in {"notOk", "throw"})
             => /\ batch'.result.errors = batch.result.errors + 1
                /\ batch'.result.downloaded = batch.result.downloaded
                /\ batch'.result.entries = batch.result.entries
                /\ batch'.pc = IF batch.i < Len(batch.urls) THEN "sleep" ELSE "done"
                /\ UNCHANGED <<disk, manifestFile>>]_vars

\* a batch has counted a failed fetch, gone on and downloaded a later source
C16_Witness ==
    /\ batch.result.errors > 0
    /\ batch.result.downloaded > 0
    /\ batch.result.entries[1].source = batch.urls[2]

\* the positions of the fetch events in the log of the batch
FetchesOf(log) == {k \in 1..Len(log) : log[k].event = "fetch"}

\* C24: in a batch, between any two successive fetch attempts the rate-limit delay
\* has been started and has run out: the later fetch starts after the wake that
\* follows the sleep that follows the earlier fetch, whatever the earlier one came to.
C24_SleepBetweenFetches ==
    \A i, j \in FetchesOf(batch.log) :
        i < j => \E k, l \in (i + 1)..(j - 1) :
                    k < l /\ batch.log[k].event = "sleep" /\ batch.log[l].event = "wake"

\* the batch has started its second fetch after a first one that failed
C24_Witness ==
    /\ Cardinality(FetchesOf(batch.log)) = 2
    /\ batch.result.errors = 1
    /\ batch.pc = "await"

\* every row of a manifest has its file
HasBlobs(files, manifest) ==
    \A i \in 1..Len(manifest) : ExistsSync(files, manifest[i].localPath)

\* C26: at every point where a batch acquisition can be interrupted, after a blob is
\* written, between the deletion of files and the save of the manifest during an
\* eviction, and after a save, every entry of the persisted manifest has its blob.
C26_PersistedRowsHaveBlobs ==
    /\ HasBlobs(disk, manifestFile)
    /\ \A k \in 1..Len(midway) : HasBlobs(midway[k].files, midway[k].manifest)

\* C27: enforceCacheLimit evicts only while the running total exceeds the budget, the
\* total going down by the size of each evicted entry: every evicted row was deleted
\* at a point where the rows not yet evicted summed to more than the budget, also
\* when the deletion of an evicted file failed.
C27_EvictionMinimal ==
    [][(batch.pc = "loop" /\ batch'.pc = "await")
          => LET sizeOf(url) == ManifestGet(manifestFile, url)[1].size
                 RECURSIVE taken(_)
                 taken(j) == IF j = 0 THEN 0 ELSE sizeOf(evicted'[j]) + taken(j - 1)
             IN  \A j \in 1..Len(evicted') :
                    SumSizes(manifestFile) - taken(j - 1) > batch.maxCacheSize]_vars

\* C28: loading the manifest drops the rows whose file is absent: the manifest a
\* download has in hand after its load, which it will save, has no such row.
C28_LoadDropsDanglingRows ==
    [][\A c \in CallIds :
          (calls[c].pc # "fetch" /\ calls'[c].pc = "fetch")
              => HasBlobs(disk', calls'[c].manifest)]_vars

\* call c has returned the entry of a file it fetched itself
FetchedEntry(c) ==
    calls[c].pc = "done" /\ calls[c].fetched # "" /\ calls[c].result # Null

\* C39: two downloadHipFile calls for different sources, each of which fetches its
\* file, leave both rows in the persisted manifest however their fetches interleave:
\* when the second of them saves, at a point where the persisted manifest holds the
\* row of the first (and the batch iteration of the saving call evicted nothing), the
\* saved manifest holds the entry each call returned, so neither blob is without a row.
C39_OverlappingDownloadsKeepBothRows ==
    [][\A c, d \in CallIds :
          (/\ c # d
           /\ FetchedEntry(c)
           /\ ManifestGet(manifestFile, calls[c].url) = calls[c].result
           /\ calls[d].pc = "fetch" /\ calls[d].url # calls[c].url
           /\ calls'[d].pc = "done" /\ calls'[d].result # Null
           /\ (d = 0 => evicted = <<>>))
              => /\ ManifestGet(manifestFile', calls[c].url) = calls[c].result
                 /\ ManifestGet(manifestFile', calls[d].url) = calls'[d].result]_vars

-----------------------------------------------------------------------------
(* The Knowledge Store: the HIP file tables of KnowledgeBase               *)

\* the archives, named by the hash of their cache entry
Archives == {"hash-a", "hash-b", "hash-e"}

\* parseHipFile on the file of an archive: the scene, or the error readCpioFromBuffer
\* throws for a file without the CPIO magic
parseHipFile(hash) ==
    CASE hash = "hash-a" ->
           [ok |-> TRUE, message |-> "",
            nodes |-> << [type |-> "box", path |-> "/obj/box1",
                          parameters |->
                             << [name |-> "scale",
                                 value |-> [kind |-> "number", text |-> "2.50"],
                                 isDefault |-> FALSE, expression |-> Null] >>] >>]
      [] hash = "hash-b" ->
           [ok |-> TRUE, message |-> "",
            nodes |-> << [type |-> "null", path |-> "/obj/null1",
                          parameters |->
                             << [name |-> "tx",
                                 value |-> [kind |-> "text", text |-> "$F"],
                                 isDefault |-> TRUE, expression |-> Some("$F")] >>] >>]
      [] hash = "hash-e" ->
           [ok |-> FALSE, message |-> "Not a valid CPIO archive: magic not found",
            nodes |-> <<>>]

\* String(param.value) of a number, JSON.stringify of an array of numbers, the text
\* itself otherwise; the number of "2.50" prints as "2.5"
ValueStr(value) ==
    LET print(text) == IF text = "2.50" THEN "2.5" ELSE text
        parts == SplitWs(value.text)
        RECURSIVE join(_)
        join(k) == IF k > Len(parts) THEN ""
                   ELSE (IF k > 1 THEN "," ELSE "") \o print(parts[k]) \o join(k + 1)
    IN  CASE value.kind = "number" -> print(value.text)
          [] value.kind = "array" -> "[" \o join(1) \o "]"
          [] OTHER -> value.text

\* the snapshots extractHipToKnowledgeBase builds from the nodes, in node and
\* parameter order
RECURSIVE SceneSnapshots(_)
SceneSnapshots(nodes) ==
    IF nodes = <<>> THEN <<>>
    ELSE LET node == Head(nodes)
         IN  [j \in 1..Len(node.parameters) |->
                 [node_type |-> node.type, node_path |-> node.path,
                  param_name |-> node.parameters[j].name,
                  param_value |-> ValueStr(node.parameters[j].value),
                  is_default |-> node.parameters[j].isDefault,
                  expression |-> node.parameters[j].expression]]
             \o SceneSnapshots(Tail(nodes))

\* INSERT INTO hip_files ... ON CONFLICT(file_hash) DO UPDATE: a new row gets the next
\* id and becomes the connection's last insert rowid; an update leaves the last insert
\* rowid as it was, and Number(result.lastInsertRowid) is returned either way
upsertHipFile(files, last, data) ==
    IF \E i \in 1..Len(files) : files[i].file_hash = data.file_hash
    THEN [files |-> [i \in 1..Len(files) |->
                        IF files[i].file_hash = data.file_hash THEN data ELSE files[i]],
          last |-> last, id |-> last]
    ELSE [files |-> Append(files, data), last |-> Len(files) + 1, id |-> Len(files) + 1]

\* upsertHipFile had it returned the id of the row with the hash
upsertHipFileById(files, last, data) ==
    LET done == upsertHipFile(files, last, data)
    IN  [done EXCEPT !.id = CHOOSE i \in 1..Len(done.files) :
                                done.files[i].file_hash = data.file_hash]

\* getHipFile had it found no row
getHipFileMissed(files, fileHash) == Null

\* SELECT * FROM hip_files WHERE file_hash = ?
getHipFile(files, fileHash) ==
    LET hits == {i \in 1..Len(files) : files[i].file_hash = fileHash}
    IN  IF hits = {} THEN Null ELSE Some(files[CHOOSE i \in hits : TRUE])

\* DELETE FROM hip_parameter_snapshots WHERE hip_file_id = ?
clearSnapshotsForHipFile(rows, hipFileId) ==
    SelectSeq(rows, LAMBDA row : row.hip_file_id # hipFileId)

\* the insert loop: with foreign_keys ON the first insert throws when hip_files has no
\* row of that id, else every snapshot gets the next rowid
insertParameterSnapshots(db, last, hipFileId, snapshots) ==
    IF snapshots = <<>> THEN [db |-> db, last |-> last, threw |-> FALSE]
    ELSE IF hipFileId \notin 1..Len(db.files) THEN [db |-> db, last |-> last, threw |-> TRUE]
    ELSE [db |-> [db EXCEPT
                     !.rows = @ \o [j \in 1..Len(snapshots) |->
                                       [id |-> db.seq + j, hip_file_id |-> hipFileId,
                                        node_type |-> snapshots[j].node_type,
                                        node_path |-> snapshots[j].node_path,
                                        param_name |-> snapshots[j].param_name,
                                        param_value |-> snapshots[j].param_value,
                                        is_default |-> IF snapshots[j].is_default THEN 1 ELSE 0,
                                        expression |-> snapshots[j].expression]],
                     !.seq = @ + Len(snapshots)],
          last |-> db.seq + Len(snapshots), threw |-> FALSE]

-----------------------------------------------------------------------------
(* The Extractor                                                           *)

\* extractHipToKnowledgeBase(parsed, fileEntry, kb) on the connection whose last insert
\* rowid is last
extractHipToKnowledgeBase(db, last, parsed, fileHash) ==
    LET upserted == upsertHipFile(db.files, last,
                       [file_hash |-> fileHash, node_count |-> Len(parsed.nodes),
                        parse_status |-> "success", parse_error |-> Null])
        cleared == [db EXCEPT !.files = upserted.files,
                              !.rows = clearSnapshotsForHipFile(@, upserted.id)]
        inserted == insertParameterSnapshots(cleared, upserted.last, upserted.id,
                                             SceneSnapshots(parsed.nodes))
    IN  [db |-> inserted.db, last |-> inserted.last, hipFileId |-> upserted.id,
         errors |-> IF inserted.threw THEN 1 ELSE 0]

\* the upsert of the catch blocks had it left parse_status and parse_error out
RecordPending(db, last, fileHash, message) ==
    LET upserted == upsertHipFile(db.files, last,
                       [file_hash |-> fileHash, node_count |-> 0,
                        parse_status |-> "pending", parse_error |-> Null])
    IN  [db |-> [db EXCEPT !.files = upserted.files], last |-> upserted.last,
         hipFileId |-> 0, errors |-> 1]

\* the upsert of the catch blocks: parse_status "error" with the message
RecordFailure(db, last, fileHash, message) ==
    LET upserted == upsertHipFile(db.files, last,
                       [file_hash |-> fileHash, node_count |-> 0,
                        parse_status |-> "error", parse_error |-> Some(message)])
    IN  [db |-> [db EXCEPT !.files = upserted.files], last |-> upserted.last,
         hipFileId |-> 0, errors |-> 1]

\* parseHipFile and extractHipToKnowledgeBase inside a try whose catch records the
\* failure: a missing file fails in fs, a file without the magic in the reader
TryExtract(db, last, fileHash, exists) ==
    IF ~exists THEN RecordFailure(db, last, fileHash, "File not found")
    ELSE IF ~parseHipFile(fileHash).ok
         THEN RecordFailure(db, last, fileHash, parseHipFile(fileHash).message)
    ELSE extractHipToKnowledgeBase(db, last, parseHipFile(fileHash), fileHash)

\* the snapshots attached to the record of a hash, as a bag of
\* (node_path, param_name, param_value, is_default, expression)
SnapshotBag(db, fileHash) ==
    LET ids == {i \in 1..Len(db.files) : db.files[i].file_hash = fileHash}
        mine == {k \in 1..Len(db.rows) : db.rows[k].hip_file_id \in ids}
        tuple(row) == <<row.node_path, row.param_name, row.param_value, row.is_default,
                        row.expression>>
    IN  [t \in {tuple(db.rows[k]) : k \in mine} |->
            Cardinality({k \in mine : tuple(db.rows[k]) = t})]

\* an extraction of an archive has run: it is the latest, and the snapshots of a
\* first extraction are remembered
Remember(past, fileHash, db) ==
    [latest |-> fileHash,
     first |-> [past.first EXCEPT ![fileHash] =
                   IF @ = Null THEN Some(SnapshotBag(db, fileHash)) ELSE @]]

\* a step that extracts nothing
Forget(past) == [past EXCEPT !.latest = ""]

IdleExtraction ==
    [pc |-> "idle", entries |-> <<>>, i |-> 1, last |-> 0, extracted |-> 0, errors |-> 0,
     parsed |-> 0, outcomes |-> <<>>, log |-> <<>>]

ExtractInit ==
    /\ store = [files |-> <<>>, rows |-> <<>>, seq |-> 0]
    /\ kbRowid = 0
    /\ cachedFiles \in SUBSET Archives
    /\ extraction = IdleExtraction
    /\ returned = [n |-> 0, op |-> "", hash |-> "", hipFileId |-> 0, errors |-> 0]
    /\ history = [latest |-> "", first |-> [h \in Archives |-> Null]]

\* a caller extracts a scene it has parsed on the connection it keeps open
ExtractParsed(h) ==
    /\ extraction.pc # "loop"
    /\ returned.n < MaxOperations
    /\ parseHipFile(h).ok
    /\ LET done == extractHipToKnowledgeBase(store, kbRowid, parseHipFile(h), h)
       IN  /\ store' = done.db
           /\ kbRowid' = done.last
           /\ returned' = [n |-> returned.n + 1, op |-> "extractHipToKnowledgeBase",
                           hash |-> h, hipFileId |-> done.hipFileId,
                           errors |-> done.errors]
           /\ history' = Remember(history, h, done.db)
    /\ extraction' = IdleExtraction
    /\ UNCHANGED cachedFiles
    /\ UNCHANGED <<parserVars, readerVars, filterVars, cacheVars, statsVars, helperVars>>

\* extractHipFileToKnowledgeBase: a connection of its own, opened and closed
ExtractFile(h) ==
    /\ extraction.pc # "loop"
    /\ returned.n < MaxOperations
    /\ LET done == TryExtract(store, 0, h, h \in cachedFiles)
       IN  /\ store' = done.db
           /\ returned' = [n |-> returned.n + 1, op |-> "extractHipFileToKnowledgeBase",
                           hash |-> h, hipFileId |-> done.hipFileId,
                           errors |-> done.errors]
           /\ history' = IF h \in cachedFiles /\ parseHipFile(h).ok
                         THEN Remember(history, h, done.db) ELSE Forget(history)
    /\ extraction' = IdleExtraction
    /\ UNCHANGED <<kbRowid, cachedFiles>>
    /\ UNCHANGED <<parserVars, readerVars, filterVars, cacheVars, statsVars, helperVars>>

\* extractAllHipFiles is called: initDatabase opens its connection
ExtractAllStart ==
    /\ extraction.pc # "loop"
    /\ returned.n < MaxOperations
    /\ \E hashes \in SeqsUpTo(Archives, MaxBatchEntries) :
          extraction' = [IdleExtraction EXCEPT
                            !.pc = IF hashes = <<>> THEN "done" ELSE "loop",
                            !.entries = hashes]
    /\ returned' = [n |-> returned.n + 1, op |-> "extractAllHipFiles", hash |-> "",
                    hipFileId |-> 0, errors |-> 0]
    /\ history' = Forget(history)
    /\ UNCHANGED <<store, kbRowid, cachedFiles>>
    /\ UNCHANGED <<parserVars, readerVars, filterVars, cacheVars, statsVars, helperVars>>

\* one iteration of the loop of extractAllHipFiles
ExtractAllIterate ==
    /\ extraction.pc = "loop"
    /\ LET h == extraction.entries[extraction.i]
           existing == getHipFile(store.files, h)
           skip == existing # Null /\ existing[1].parse_status = "success"
           exists == h \in cachedFiles
           done == TryExtract(store, extraction.last, h, exists)
           ran == exists /\ parseHipFile(h).ok
           outcome == IF skip THEN "cached" ELSE IF done.errors = 0 THEN "extracted"
                      ELSE "failed"
       IN  /\ store' = IF skip THEN store ELSE done.db
           /\ history' = IF ~skip /\ ran THEN Remember(history, h, done.db)
                         ELSE Forget(history)
           /\ extraction' =
                 [extraction EXCEPT
                     !.i = @ + 1,
                     !.pc = IF extraction.i + 1 > Len(extraction.entries)
                            THEN "done" ELSE "loop",
                     !.last = IF skip THEN @ ELSE done.last,
                     !.extracted = IF outcome = "failed" THEN @ ELSE @ + 1,
                     !.errors = IF outcome = "failed" THEN @ + 1 ELSE @,
                     !.parsed = IF ~skip /\ exists THEN @ + 1 ELSE @,
                     !.outcomes = Append(@, outcome),
                     !.log = OnProgress(@, extraction.i, Len(extraction.entries),
                                        IF skip THEN h \o " (cached)" ELSE h)]
    /\ UNCHANGED <<kbRowid, cachedFiles, returned>>
    /\ UNCHANGED <<parserVars, readerVars, filterVars, cacheVars, statsVars, helperVars>>

\* between calls the downloader brings the file of an archive into the cache
FileArrives(h) ==
    /\ extraction.pc # "loop"
    /\ h \notin cachedFiles
    /\ cachedFiles' = cachedFiles \cup {h}
    /\ history' = Forget(history)
    /\ extraction' = IdleExtraction
    /\ UNCHANGED <<store, kbRowid, returned>>
    /\ UNCHANGED <<parserVars, readerVars, filterVars, cacheVars, statsVars, helperVars>>

ExtractNext ==
    \/ \E h \in Archives : ExtractParsed(h)
    \/ \E h \in Archives : ExtractFile(h)
    \/ ExtractAllStart
    \/ ExtractAllIterate
    \/ \E h \in Archives : FileArrives(h)

InitExtract == ExtractInit /\ ParserIdle /\ ReaderIdle /\ FilterIdle /\ CacheIdle /\ StatsIdle /\ HelperIdle

SpecExtract == InitExtract /\ [][ExtractNext]_vars

-----------------------------------------------------------------------------
(* Claims on the Extractor and the Knowledge Store                         *)

\* C17: when an archive that was extracted before is extracted again, the snapshots
\* attached to the record of its hash are afterwards the same bag of (node_path,
\* param_name, param_value, is_default, expression) as after its first extraction.
C17_ReextractionSameSnapshots ==
    [][\A h \in Archives :
          (history'.latest = h /\ history.first[h] # Null)
              => SnapshotBag(store', h) = history.first[h][1]]_vars

\* the records of a hash: file_hash is UNIQUE, so there is at most one
RecordsOf(db, fileHash) ==
    {db.files[i] : i \in {k \in 1..Len(db.files) : db.files[k].file_hash = fileHash}}

\* the hash has a record in state success
HasSuccess(db, fileHash) ==
    \E row \in RecordsOf(db, fileHash) : row.parse_status = "success"

\* C18: an iteration of extractAllHipFiles on an entry whose hash has a record in
\* state success runs no parse and leaves every record and every snapshot as it was;
\* the entry is counted as extracted.
C18_SuccessRecordSkipped ==
    [][(/\ extraction.pc = "loop"
        /\ extraction'.i = extraction.i + 1
        /\ HasSuccess(store, extraction.entries[extraction.i]))
          => /\ store' = store
             /\ extraction'.parsed = extraction.parsed
             /\ extraction'.extracted = extraction.extracted + 1
             /\ extraction'.errors = extraction.errors]_vars

\* a batch has skipped an entry whose record has snapshots, without parsing anything
C18_Witness ==
    /\ extraction.pc = "done"
    /\ extraction.outcomes = <<"cached">>
    /\ extraction.parsed = 0
    /\ SnapshotBag(store, extraction.entries[1]) # <<>>

\* the step is a parse, by extractHipFileToKnowledgeBase or by an iteration of
\* extractAllHipFiles, of the existing file of an archive that has a format error
FormatErrorStep(h) ==
    /\ h \in cachedFiles
    /\ ~parseHipFile(h).ok
    /\ \/ /\ returned'.n = returned.n + 1
          /\ returned'.op = "extractHipFileToKnowledgeBase"
          /\ returned'.hash = h
       \/ /\ extraction.pc = "loop"
          /\ extraction'.i = extraction.i + 1
          /\ extraction.entries[extraction.i] = h
          /\ ~HasSuccess(store, h)

\* C19: when parsing an archive raises a format error, the record of its hash is
\* afterwards in state error with the message of the error, the other records are as
\* before, and no snapshot of any record has been inserted or deleted.
C19_FormatErrorRecorded ==
    [][\A h \in Archives :
          FormatErrorStep(h)
             => /\ RecordsOf(store', h) # {}
                /\ \A row \in RecordsOf(store', h) :
                      /\ row.parse_status = "error"
                      /\ row.parse_error = Some(parseHipFile(h).message)
                /\ \A g \in Archives \ {h} : RecordsOf(store', g) = RecordsOf(store, g)
                /\ store'.rows = store.rows
                /\ store'.seq = store.seq]_vars

\* a format error is on record next to the snapshots of another archive
C19_Witness ==
    /\ \E row \in RecordsOf(store, "hash-e") :
          /\ row.parse_status = "error"
          /\ row.parse_error = Some(parseHipFile("hash-e").message)
    /\ store.rows # <<>>
    /\ store.files[1].file_hash # "hash-e"

\* C20: extractAllHipFiles returns after an iteration for every entry, and then the
\* hash of every entry has a record whose state is success when the entry was counted
\* as extracted and error when it was counted as an error.
C20_EveryEntryOwnOutcome ==
    extraction.pc = "done"
        => /\ Len(extraction.outcomes) = Len(extraction.entries)
           /\ \A i \in 1..Len(extraction.entries) :
                 LET rows == RecordsOf(store, extraction.entries[i])
                 IN  /\ rows # {}
                     /\ \A row \in rows :
                           row.parse_status =
                              IF extraction.outcomes[i] = "failed" THEN "error"
                              ELSE "success"

\* the bag of snapshots the Scene of an archive calls for
SceneBag(fileHash) ==
    LET snaps == SceneSnapshots(parseHipFile(fileHash).nodes)
        tuple(snap) == <<snap.node_path, snap.param_name, snap.param_value,
                         IF snap.is_default THEN 1 ELSE 0, snap.expression>>
    IN  [t \in {tuple(snaps[j]) : j \in 1..Len(snaps)} |->
            Cardinality({j \in 1..Len(snaps) : tuple(snaps[j]) = t})]

\* C21: a record in state success has exactly the snapshots of its Scene, complete:
\* an extraction whose snapshot insert failed has left nothing behind.
C21_SuccessHasItsSnapshots ==
    \A h \in Archives :
        HasSuccess(store, h) => SnapshotBag(store, h) = SceneBag(h)

\* the snapshot rows that hang on the record of a hash, in table order
RowsOfRecord(db, fileHash) ==
    LET ids == {i \in 1..Len(db.files) : db.files[i].file_hash = fileHash}
    IN  SelectSeq(db.rows, LAMBDA row : row.hip_file_id \in ids)

\* C38: extracting one archive never deletes or rewrites the snapshots of another
\* record: in a step that extracts the scene of an archive, the snapshot rows of the
\* record of every other hash are afterwards what they were, whether the upsert
\* inserted the archive's record or updated it, in a batch or across connections.
C38_OtherRecordsUntouched ==
    [][history'.latest # ""
          => \A g \in Archives \ {history'.latest} :
                RowsOfRecord(store', g) = RowsOfRecord(store, g)]_vars

-----------------------------------------------------------------------------
(* KnowledgeBase.getParameterStatistics and getParameterUsageStats          *)
(* Reals are kept in hundredths; the stored values have at most one        *)
(* decimal, so a tenth of a difference is a whole number of hundredths.    *)

MaxSnapshots == 2

NodeTypes == {"box", "null"}

ParamNames == {"scale", "tx"}

\* what parseParamValue and valueStr make of these raw values is what a snapshot
\* holds: "2.5", "-3", "0", the text "10px", the array "[1,2]"
RawValues == {"2.50", "-3", "0", "10px", "1 2"}

\* rows as insertParameterSnapshots writes them; is_default is 1 for the value 0
SnapshotCatalogue ==
    {[node_type |-> t, param_name |-> n,
      param_value |-> ValueStr(parseParamValue(v)),
      is_default |-> IF v = "0" THEN 1 ELSE 0] : t \in NodeTypes, n \in ParamNames, v \in RawValues}

\* CAST(param_value AS REAL), in hundredths: the longest prefix of the text that reads
\* as a number (a sign, digits, a point, digits), 0.0 when there is none
CastReal(text) ==
    LET signed == Len(text) >= 1 /\ Ch(text, 1) \in {"+", "-"}
        start == IF signed THEN 2 ELSE 1
        point == SkipDigits(text, start)
        digit(i) == PosIn(DigitChars, Ch(text, i)) - 1
        isDigit(i) == i <= Len(text) /\ Ch(text, i) \in Digits
        RECURSIVE whole(_, _)
        whole(i, acc) == IF i >= point THEN acc ELSE whole(i + 1, acc * 10 + digit(i))
        hasPoint == point <= Len(text) /\ Ch(text, point) = "."
        tenths == IF hasPoint /\ isDigit(point + 1) THEN digit(point + 1) ELSE 0
        hundredths == IF hasPoint /\ isDigit(point + 1) /\ isDigit(point + 2)
                      THEN digit(point + 2) ELSE 0
        numeric == point > start \/ (hasPoint /\ isDigit(point + 1))
        magnitude == whole(start, 0) * 100 + tenths * 10 + hundredths
    IN  IF ~numeric THEN 0
        ELSE IF signed /\ Ch(text, 1) = "-" THEN 0 - magnitude ELSE magnitude

\* the WHERE clause of getParameterStatistics as SQLite reads it, AND before OR:
\*   (node_type = ? AND typeof(param_value) != 'text')
\*   OR ((GLOB '[0-9]*' OR GLOB '-[0-9]*' OR GLOB '[0-9]*.[0-9]*') [AND param_name = ?])
\* param_value is a TEXT column bound from a JavaScript string: typeof is 'text'
WhereClause(row, nodeType, paramName) ==
    LET text == row.param_value
        typeof == "text"
        globDigit == Len(text) >= 1 /\ Ch(text, 1) \in Digits
        globMinusDigit == Len(text) >= 2 /\ Ch(text, 1) = "-" /\ Ch(text, 2) \in Digits
        globDigitPointDigit ==
            /\ globDigit
            /\ \E i \in 2..(Len(text) - 1) : Ch(text, i) = "." /\ Ch(text, i + 1) \in Digits
    IN  \/ row.node_type = nodeType /\ typeof # "text"
        \/ /\ globDigit \/ globMinusDigit \/ globDigitPointDigit
           /\ paramName = Null \/ row.param_name = paramName[1]

\* GROUP BY param_name with COUNT, MIN, MAX, AVG and SUM over the selected rows;
\* avg_value is kept as the sum and the count it is the quotient of
ParameterGroups(rows, nodeType, paramName) ==
    LET selected == SelectSeq(rows, LAMBDA row : WhereClause(row, nodeType, paramName))
        group(n) == {i \in 1..Len(selected) : selected[i].param_name = n}
        value(i) == CastReal(selected[i].param_value)
        RECURSIVE sum(_)
        sum(S) == IF S = {} THEN 0
                  ELSE LET i == CHOOSE j \in S : TRUE IN value(i) + sum(S \ {i})
    IN  {[param_name |-> n,
          sample_count |-> Cardinality(group(n)),
          min_value |-> CHOOSE v \in {value(i) : i \in group(n)} :
                            \A i \in group(n) : v <= value(i),
          max_value |-> CHOOSE v \in {value(i) : i \in group(n)} :
                            \A i \in group(n) : v >= value(i),
          avg_value |-> [sum |-> sum(group(n)), count |-> Cardinality(group(n))],
          modified_count |-> Cardinality({i \in group(n) : selected[i].is_default = 0})] :
        n \in {selected[i].param_name : i \in 1..Len(selected)}}

\* the lists the query may return: one row per group, ORDER BY sample_count DESC,
\* groups of equal count in either order
getParameterStatistics(rows, nodeType, paramName) ==
    LET groups == ParameterGroups(rows, nodeType, paramName)
    IN  {list \in SeqsUpTo(groups, Cardinality(groups)) :
            /\ Len(list) = Cardinality(groups)
            /\ \A i, j \in 1..Len(list) : i < j =>
                   list[i] # list[j] /\ list[i].sample_count >= list[j].sample_count}

\* getParameterUsageStats with the tenth of the range added below and taken off above
getParameterUsageStatsWidened(rows, nodeType) ==
    LET usage(row) ==
            LET min == row.min_value
                max == row.max_value
                range == max - min
                usageMin == min - range \div 10
                usageMax == max + range \div 10
            IN  [nodeType |-> nodeType, paramName |-> row.param_name,
                 sampleCount |-> row.sample_count,
                 minValue |-> min, maxValue |-> max, avgValue |-> row.avg_value,
                 modifiedCount |-> row.modified_count,
                 usageRange |-> <<IF usageMin < usageMax THEN usageMin ELSE min,
                                  IF usageMax > usageMin THEN usageMax ELSE max>>]
    IN  {[k \in 1..Len(rawStats) |-> usage(rawStats[k])] :
            rawStats \in getParameterStatistics(rows, nodeType, Null)}

\* getParameterUsageStats: rawStats.map over the rows of getParameterStatistics(nodeType);
\* Number(x) || 0 gives the number itself, range * 0.1 is a tenth of the range
getParameterUsageStats(rows, nodeType) ==
    LET usage(row) ==
            LET min == row.min_value
                max == row.max_value
                range == max - min
                usageMin == min + range \div 10
                usageMax == max - range \div 10
            IN  [nodeType |-> nodeType, paramName |-> row.param_name,
                 sampleCount |-> row.sample_count,
                 minValue |-> min, maxValue |-> max, avgValue |-> row.avg_value,
                 modifiedCount |-> row.modified_count,
                 usageRange |-> <<IF usageMin < usageMax THEN usageMin ELSE min,
                                  IF usageMax > usageMin THEN usageMax ELSE max>>]
    IN  {[k \in 1..Len(rawStats) |-> usage(rawStats[k])] :
            rawStats \in getParameterStatistics(rows, nodeType, Null)}

StatsInit ==
    /\ snapshotTable \in SeqsUpTo(SnapshotCatalogue, MaxSnapshots)
    /\ statsCall = [pc |-> "idle", nodeType |-> "", paramName |-> Null,
                    stats |-> <<>>, usage |-> <<>>]

\* kb.getParameterStatistics(nodeType) or kb.getParameterStatistics(nodeType, paramName)
StatisticsCall(nodeType, paramName) ==
    /\ statsCall.pc = "idle"
    /\ \E list \in getParameterStatistics(snapshotTable, nodeType, paramName) :
          statsCall' = [pc |-> "statistics", nodeType |-> nodeType,
                        paramName |-> paramName, stats |-> list, usage |-> <<>>]
    /\ UNCHANGED snapshotTable
    /\ UNCHANGED <<parserVars, readerVars, filterVars, cacheVars, extractVars, helperVars>>

\* getParameterUsageStats(kb, nodeType)
UsageStatsCall(nodeType) ==
    /\ statsCall.pc = "idle"
    /\ \E list \in getParameterUsageStats(snapshotTable, nodeType) :
          statsCall' = [pc |-> "usage", nodeType |-> nodeType, paramName |-> Null,
                        stats |-> <<>>, usage |-> list]
    /\ UNCHANGED snapshotTable
    /\ UNCHANGED <<parserVars, readerVars, filterVars, cacheVars, extractVars, helperVars>>

StatsNext ==
    \/ \E t \in NodeTypes : StatisticsCall(t, Null)
    \/ \E t \in NodeTypes, n \in ParamNames : StatisticsCall(t, Some(n))
    \/ \E t \in NodeTypes : UsageStatsCall(t)

InitStats ==
    StatsInit /\ ParserIdle /\ ReaderIdle /\ FilterIdle /\ CacheIdle /\ ExtractIdle /\ HelperIdle

SpecStats == InitStats /\ [][StatsNext]_vars

-----------------------------------------------------------------------------
(* Claims about the aggregate queries                                      *)

\* a value the Aggregate counts as numerically parseable: an optional sign, decimal
\* digits, an optional decimal point with digits
NumericallyParseable(text) ==
    LET start == IF Len(text) >= 1 /\ Ch(text, 1) \in {"+", "-"} THEN 2 ELSE 1
        point == SkipDigits(text, start)
    IN  /\ point > start
        /\ \/ point > Len(text)
           \/ Ch(text, point) = "." /\ SkipDigits(text, point + 1) > Len(text)

\* C22: stats(T) and stats(T, P) aggregate only the snapshots of node type T (and of
\* parameter P) whose value is numerically parseable: the rows returned are those of
\* the same query over the table without every other snapshot.
C22_OnlyOwnNumericSnapshots ==
    statsCall.pc = "statistics" =>
        LET counted(row) ==
                /\ row.node_type = statsCall.nodeType
                /\ statsCall.paramName = Null \/ row.param_name = statsCall.paramName[1]
                /\ NumericallyParseable(row.param_value)
        IN  {statsCall.stats[k] : k \in 1..Len(statsCall.stats)} =
                ParameterGroups(SelectSeq(snapshotTable, counted),
                                statsCall.nodeType, statsCall.paramName)

\* C23: every row of stats(T) has min <= lo <= hi <= max for its usage range [lo, hi],
\* also when min = max and when min or max is negative or zero.
C23_UsageRangeWithinMinMax ==
    statsCall.pc = "usage" =>
        \A k \in 1..Len(statsCall.usage) :
            LET row == statsCall.usage[k]
            IN  /\ row.minValue <= row.usageRange[1]
                /\ row.usageRange[1] <= row.usageRange[2]
                /\ row.usageRange[2] <= row.maxValue

\* a usage row over a negative minimum and a positive maximum, its range strictly inside
C23_Witness ==
    /\ statsCall.pc = "usage"
    /\ \E k \in 1..Len(statsCall.usage) :
          LET row == statsCall.usage[k]
          IN  /\ row.minValue < 0 /\ row.maxValue > 0
              /\ row.minValue < row.usageRange[1] /\ row.usageRange[2] < row.maxValue

-----------------------------------------------------------------------------
(* The two batch operations, downloadHipFiles and extractAllHipFiles, each  *)
(* on its own: a behaviour is one of the Cache Manager or one of the       *)
(* Extractor.                                                              *)

InitBatches == InitCache \/ InitExtract

BatchesNext ==
    \/ DOMAIN batch # {} /\ CacheNext
    \/ DOMAIN extraction # {} /\ ExtractNext

SpecBatches == InitBatches /\ [][BatchesNext]_vars

\* the onProgress calls a batch has made so far
ProgressOf(log) == SelectSeq(log, LAMBDA ev : ev.event = "progress")

\* the calls are one per finished item, done counting 1, 2, ... against the total
CountsUp(log, finished, total) ==
    /\ Len(ProgressOf(log)) = finished
    /\ \A k \in 1..Len(ProgressOf(log)) :
          ProgressOf(log)[k].done = k /\ ProgressOf(log)[k].total = total

\* C25: each batch operation calls the progress callback exactly once per item, with
\* done = 1, 2, ..., total in this order; when downloadHipFiles returns, downloaded +
\* skipped + errors is the number of sources, and when extractAllHipFiles returns,
\* extracted + errors is the number of entries.
C25_ProgressOncePerItem ==
    /\ DOMAIN batch # {} =>
          LET finished == batch.result.downloaded + batch.result.skipped
                              + batch.result.errors
          IN  /\ CountsUp(batch.log, finished, Len(batch.urls))
              /\ batch.pc = "done" => finished = Len(batch.urls)
    /\ DOMAIN extraction # {} =>
          LET finished == extraction.extracted + extraction.errors
          IN  /\ CountsUp(extraction.log, finished, Len(extraction.entries))
              /\ extraction.pc = "done" => finished = Len(extraction.entries)

\* a download batch of two has returned with one source skipped and one failed
DownloadBatchReported ==
    /\ DOMAIN batch # {}
    /\ batch.pc = "done"
    /\ batch.result.skipped = 1 /\ batch.result.errors = 1
    /\ Len(ProgressOf(batch.log)) = 2

\* an extraction batch of two has returned with one entry skipped and one failed
ExtractionBatchReported ==
    /\ DOMAIN extraction # {}
    /\ extraction.pc = "done"
    /\ extraction.outcomes = <<"cached", "failed">>
    /\ Len(ProgressOf(extraction.log)) = 2

\* a batch of two has returned, the callback called once for each item
C25_Witness == DownloadBatchReported \/ ExtractionBatchReported

-----------------------------------------------------------------------------
(* parseParamValue and inferCategory called on their own                   *)

RawValueStrings ==
    {"3.14", "1 2 3", "hello world", "\"smoke\"", "'a b'", "Infinity", "0x10", "1e3",
     " 0.05 ", "", "-3", "1\t2", "1 x", "\"a'"}

TypeNames ==
    {"geo", "null", "FlipSolver", "pyrosolver::2.0", "rbdobject", "vellumcloth",
     "gasupwind", "Bullet", "solver"}

FilePaths ==
    {"obj/geo1", "/obj/geo1", "a/dop/b", "dopnet1", "a/sop/b", "a/vop/b",
     "vopnet1/obj/x", "a/chop/b", "a/cop/b", "a/rop/b", "a/lop/b", "a/top/dop/b",
     "A/OBJ/B"}

HelperInit == helperCall = [pc |-> "idle", fn |-> "", args |-> <<>>, result |-> Null]

\* parseParamValue(rawValue)
ParamValueCall(rawValue) ==
    /\ helperCall.pc = "idle"
    /\ helperCall' = [pc |-> "done", fn |-> "parseParamValue", args |-> <<rawValue>>,
                      result |-> Some(parseParamValue(rawValue))]
    /\ UNCHANGED <<parserVars, readerVars, filterVars, cacheVars, extractVars, statsVars>>

\* inferCategory(nodeType, filePath)
CategoryCall(nodeType, filePath) ==
    /\ helperCall.pc = "idle"
    /\ helperCall' = [pc |-> "done", fn |-> "inferCategory", args |-> <<nodeType, filePath>>,
                      result |-> Some(inferCategory(nodeType, filePath))]
    /\ UNCHANGED <<parserVars, readerVars, filterVars, cacheVars, extractVars, statsVars>>

HelperNext ==
    \/ \E v \in RawValueStrings : ParamValueCall(v)
    \/ \E t \in TypeNames, f \in FilePaths : CategoryCall(t, f)

InitHelpers ==
    HelperInit /\ ParserIdle /\ ReaderIdle /\ FilterIdle /\ CacheIdle /\ ExtractIdle /\ StatsIdle

SpecHelpers == InitHelpers /\ [][HelperNext]_vars

-----------------------------------------------------------------------------
(* Claims about the helpers                                                *)

\* the canonical text of a finite float: an optional "-", an integer part without a
\* leading zero (or a lone 0), and an optional fraction that does not end in 0
IsCanonicalFloat(s) ==
    LET i == IF s # "" /\ Head(s) = "-" THEN 2 ELSE 1
        a == SkipDigits(s, i)
        b == SkipDigits(s, a + 1)
    IN  /\ a > i
        /\ a = i + 1 \/ Ch(s, i) # "0"
        /\ \/ a > Len(s) /\ s # "-0"
           \/ a <= Len(s) /\ Ch(s, a) = "." /\ b > a + 1 /\ b > Len(s) /\ Ch(s, b - 1) # "0"

\* a token that parses as a finite float: a decimal literal, Infinity left out
IsFiniteFloat(s) ==
    LET i == IF s # "" /\ Head(s) \in {"+", "-"} THEN 2 ELSE 1
    IN  SubSeq(s, i, Len(s)) # "Infinity" /\ i <= Len(s) /\ IsUnsignedDecimal(s, i)

\* one leading and one trailing quote removed when they are the same quote
StripQuotePair(s) ==
    IF Len(s) >= 2 /\ Head(s) \in {"\"", "'"} /\ Ch(s, Len(s)) = Head(s)
    THEN SubSeq(s, 2, Len(s) - 1)
    ELSE s

\* the three rules of value coercion, tried in order
CoercedValue(rawValue) ==
    LET trimmed == Trim(rawValue)
        parts == SplitWs(trimmed)
    IN  IF IsCanonicalFloat(trimmed) THEN [kind |-> "number", text |-> trimmed]
        ELSE IF Len(parts) >= 2 /\ \A i \in 1..Len(parts) : IsFiniteFloat(parts[i])
        THEN [kind |-> "array", text |-> trimmed]
        ELSE [kind |-> "text", text |-> StripQuotePair(trimmed)]

\* C35: the value of a Parameter is its raw value string coerced by three rules in
\* order: a float if the string is the canonical text of a finite float; else a
\* sequence if it contains whitespace and every token is a finite float; else the
\* trimmed text without one symmetric pair of quotes around it.
C35_CoercionRules ==
    helperCall.fn = "parseParamValue"
        => helperCall.result = Some(CoercedValue(helperCall.args[1]))

Categories == {"OBJ", "SOP", "DOP", "VOP", "CHOP", "COP", "ROP", "LOP", "TOP"}

\* the context markers of a filename in the order of the rules, each with its category
ContextMarkers ==
    << <<{"/dop/", "dopnet"}, "DOP">>, <<{"/sop/", "sopnet"}, "SOP">>,
       <<{"/vop/", "vopnet"}, "VOP">>, <<{"/chop/", "chopnet"}, "CHOP">>,
       <<{"/cop/", "copnet"}, "COP">>, <<{"/rop/", "ropnet"}, "ROP">>,
       <<{"/lop/", "lopnet"}, "LOP">>, <<{"/top/", "topnet"}, "TOP">>,
       <<{"/obj/"}, "OBJ">> >>

\* the category the rules give: DOP for a type with one of the solver words, else the
\* category of the first rule one of whose markers is in the filename, else SOP
CategoryByRules(type, filename) ==
    LET typeLower == ToLowerCase(type)
        nameLower == ToLowerCase(filename)
        hits == {k \in 1..Len(ContextMarkers) :
                    \E m \in ContextMarkers[k][1] : Includes(nameLower, m)}
    IN  IF \E w \in {"pyro", "flip", "rbd", "vellum", "solver", "gas", "bullet"} :
              Includes(typeLower, w)
        THEN "DOP"
        ELSE IF hits # {}
        THEN ContextMarkers[CHOOSE k \in hits : \A h \in hits : k <= h][2]
        ELSE "SOP"

\* C36: the category of a Node is one of the nine categories, and it is the one of
\* the first rule that matches: DOP for a type holding one of the solver words whatever
\* the filename, else what the filename's context marker says, else SOP.
C36_CategoryByFirstRule ==
    helperCall.fn = "inferCategory"
        => /\ helperCall.result[1] \in Categories
           /\ helperCall.result = Some(CategoryByRules(helperCall.args[1], helperCall.args[2]))

\* a solver type in a file with the marker of another category
C36_Witness ==
    /\ helperCall.fn = "inferCategory"
    /\ helperCall.args = <<"FlipSolver", "vopnet1/obj/x">>
    /\ helperCall.result = Some("DOP")

====
